---- MODULE Spec2Model ----
(***************************************************************************)
(* Model of the IntelliGrid server (src/src/supabase/functions/server/     *)
(* index.tsx): the usage store, the bill, tips, forecast, export and chat  *)
(* handlers, the goal and alert settings, the one-time passwords and       *)
(* sign-up; and of the UsageAlerts component (src/README.md).              *)
(*                                                                         *)
(* Units.  Instants are whole hours since 2024-01-01T00:00Z.  Usage is in  *)
(* whole kWh, a rate in thousandths of a dollar per kWh, an estimated cost *)
(* in thousandths of a dollar, a predicted usage in hundredths of a kWh.   *)
(* Non-integer intermediate values (average, slope, intercept) are exact   *)
(* fractions [num, den] with den > 0.  Where usage is not a whole number   *)
(* of kWh it is an IEEE 754 double, [m, e] with m the significand's bits;  *)
(* where two writes in one millisecond matter the clock counts             *)
(* milliseconds since the server started; where one-time passwords expire  *)
(* it counts minutes.                                                      *)
(***************************************************************************)
EXTENDS Integers, Sequences, FiniteSets, TLC

VARIABLES
    tz,      \* the time zone the server process runs in
    now,     \* the server clock (Date.now())
    kv,      \* the key-value store: key -> value
    apiKey,  \* whether GEMINI_API_KEY is set in the server's environment
    llm,     \* the user context of each prompt sent to the LLM, in order
    req,     \* the last request handled
    resp,    \* the response to it
    inflight,    \* the verify-otp calls between their kv.get and its answer
    accounts,    \* the emails registered with the auth service
    verified,    \* the emails verified by OTP and not signed up since
    usageAlerts  \* the state of the UsageAlerts component in the browser

vars == <<tz, now, kv, apiKey, llm, req, resp, inflight, accounts, verified, usageAlerts>>

-----------------------------------------------------------------------------
(* Calendar: what Date does with a date-only ISO string and a time zone.   *)

IsLeap(y) == (y % 4 = 0 /\ y % 100 # 0) \/ y % 400 = 0

DaysInMonth(y, m) ==
    IF m = 2 THEN (IF IsLeap(y) THEN 29 ELSE 28)
    ELSE IF m \in {4, 6, 9, 11} THEN 30 ELSE 31

DaysInYear(y) == IF IsLeap(y) THEN 366 ELSE 365

\* Days from 2024-01-01 to the first day of year y (negative before 2024).
RECURSIVE DaysBeforeYear(_)
DaysBeforeYear(y) ==
    IF y = 2024 THEN 0
    ELSE IF y > 2024 THEN DaysBeforeYear(y - 1) + DaysInYear(y - 1)
    ELSE DaysBeforeYear(y + 1) - DaysInYear(y)

RECURSIVE DaysBeforeMonth(_, _)
DaysBeforeMonth(y, m) ==
    IF m = 1 THEN 0 ELSE DaysBeforeMonth(y, m - 1) + DaysInMonth(y, m - 1)

\* The day number of the calendar date y-m-d.
DayNumber(y, m, d) == DaysBeforeYear(y) + DaysBeforeMonth(y, m) + d - 1

\* The calendar date of a day number.
YearOfDay(n) ==
    CHOOSE y \in 2023..2026 : DaysBeforeYear(y) <= n /\ n < DaysBeforeYear(y + 1)

MonthOfDay(n) ==
    LET y == YearOfDay(n)
        r == n - DaysBeforeYear(y)
    IN  CHOOSE m \in 1..12 :
            DaysBeforeMonth(y, m) <= r /\ r < DaysBeforeMonth(y, m) + DaysInMonth(y, m)

CivilOfDay(n) ==
    LET y == YearOfDay(n)
        m == MonthOfDay(n)
    IN  [y |-> y, m |-> m, d |-> n - DaysBeforeYear(y) - DaysBeforeMonth(y, m) + 1]

\* new Date("YYYY-MM-DD").getTime(): a date-only string is midnight UTC.
DateParse(date) == DayNumber(date.y, date.m, date.d) * 24

\* The zone's offset from UTC at an instant: one switch to summer time.
OffsetAt(zone, utc) ==
    IF zone.dst # zone.std /\ utc >= zone.dstStart THEN zone.dst ELSE zone.std

\* The local wall clock (hours since 2024-01-01T00:00 local) of an instant.
LocalOf(zone, utc) == utc + OffsetAt(zone, utc)

\* The instant of a local wall-clock time; a skipped hour is read with the
\* offset in force before the switch.
UtcOf(zone, local) ==
    IF zone.dst # zone.std /\ local - zone.dst >= zone.dstStart
    THEN local - zone.dst
    ELSE local - zone.std

\* Date.prototype.getMonth (0-based) and getFullYear: local time.
GetMonth(zone, utc) == MonthOfDay(LocalOf(zone, utc) \div 24) - 1

GetFullYear(zone, utc) == YearOfDay(LocalOf(zone, utc) \div 24)

\* date.setDate(date.getDate() + i): i days later on the local wall clock.
SetDatePlus(zone, utc, i) == UtcOf(zone, LocalOf(zone, utc) + 24 * i)

\* date.toISOString().split('T')[0]: the UTC calendar date.
ToISODate(utc) == CivilOfDay(utc \div 24)

-----------------------------------------------------------------------------
(* Numbers.  A JavaScript number that need not be an integer is an exact   *)
(* fraction; 0/0 is NaN.  No handler divides a non-zero number by zero.    *)

NaN == [num |-> 0, den |-> 0]

IsNaN(f) == f.den = 0

RECURSIVE Gcd(_, _)
Gcd(a, b) == IF b = 0 THEN a ELSE Gcd(b, a % b)

Abs(a) == IF a < 0 THEN -a ELSE a

\* n / d, in lowest terms with a positive denominator.
Frac(n, d) ==
    IF d = 0 THEN NaN
    ELSE LET g == Gcd(Abs(n), Abs(d))
             s == IF d < 0 THEN -1 ELSE 1
         IN  [num |-> (s * n) \div g, den |-> (s * d) \div g]

FInt(a) == [num |-> a, den |-> 1]

FAdd(f, g) ==
    IF IsNaN(f) \/ IsNaN(g) THEN NaN
    ELSE Frac(f.num * g.den + g.num * f.den, f.den * g.den)

FSub(f, g) ==
    IF IsNaN(f) \/ IsNaN(g) THEN NaN
    ELSE Frac(f.num * g.den - g.num * f.den, f.den * g.den)

FMul(f, g) ==
    IF IsNaN(f) \/ IsNaN(g) THEN NaN ELSE Frac(f.num * g.num, f.den * g.den)

FDiv(f, g) ==
    IF IsNaN(f) \/ IsNaN(g) THEN NaN ELSE Frac(f.num * g.den, f.den * g.num)

\* f > g; every comparison with NaN is false.
FGt(f, g) == ~IsNaN(f) /\ ~IsNaN(g) /\ f.num * g.den > g.num * f.den

\* Mutant of MaxZero: the projection is not clamped.
MaxZeroUnclamped(f) == f

\* Math.max(0, f): NaN stays NaN.
MaxZero(f) == IF IsNaN(f) THEN NaN ELSE IF f.num < 0 THEN FInt(0) ELSE f

\* Mutant of Round2: truncates (Math.floor) instead of rounding.
Round2Truncating(f) == (100 * f.num) \div f.den

\* Math.round(f * 100) / 100 in hundredths: the nearest integer to 100 f,
\* a half rounding up.
Round2(f) == (200 * f.num + f.den) \div (2 * f.den)

\* The sum of f[1..n].
RECURSIVE Sigma(_, _)
Sigma(f, n) == IF n = 0 THEN 0 ELSE Sigma(f, n - 1) + f[n]

-----------------------------------------------------------------------------
(* Users, credentials and the key-value store.                             *)

Users == {"u1", "u2"}

NoUser == "none"

Tokens == {"token-u1", "token-u2", "invalid"}

\* supabase.auth.getUser(accessToken): the user of a valid token.
GetUser(token) ==
    IF token = "token-u1" THEN "u1"
    ELSE IF token = "token-u2" THEN "u2"
    ELSE NoUser

\* The key `usage:${user.id}:${Date.now()}`.
UsageKey(uid, t) == <<"usage", uid, t>>

UsageKeys(store, uid) ==
    {k \in DOMAIN store : k[1] = "usage" /\ k[2] = uid}

RECURSIVE ValuesInKeyOrder(_, _)
ValuesInKeyOrder(store, keys) ==
    IF keys = {} THEN <<>>
    ELSE LET k == CHOOSE k \in keys : \A j \in keys : k[3] <= j[3]
         IN  <<store[k]>> \o ValuesInKeyOrder(store, keys \ {k})

\* kv.getByPrefix(`usage:${user.id}:`): the values under the prefix.
GetByPrefix(store, uid) == ValuesInKeyOrder(store, UsageKeys(store, uid))

\* kv.set(key, value).
KvSet(store, key, value) ==
    [k \in DOMAIN store \cup {key} |-> IF k = key THEN value ELSE store[k]]

Null == "null"

Unauthorized == [status |-> 401, body |-> [error |-> "Unauthorized"]]

-----------------------------------------------------------------------------
(* GET /predict-usage.                                                     *)

MinEntries == 7

Window == 30

Horizon == 7

\* Array.prototype.sort with (a, b) => time(a.date) - time(b.date): stable,
\* so an entry goes after every earlier entry whose date is not later.
RECURSIVE InsertByDate(_, _)
InsertByDate(sorted, e) ==
    IF sorted = <<>> THEN <<e>>
    ELSE LET last == sorted[Len(sorted)]
         IN  IF DateParse(last.date) - DateParse(e.date) <= 0
             THEN Append(sorted, e)
             ELSE Append(InsertByDate(SubSeq(sorted, 1, Len(sorted) - 1), e), last)

RECURSIVE SortByDate(_)
SortByDate(data) ==
    IF data = <<>> THEN <<>>
    ELSE InsertByDate(SortByDate(SubSeq(data, 1, Len(data) - 1)), data[Len(data)])

\* Mutant of SliceLast: .slice(0, 30), the first 30 elements.
SliceFirst(data, k) ==
    SubSeq(data, 1, IF Len(data) > k THEN k ELSE Len(data))

\* .slice(-30): the last 30 elements, or all of them when there are fewer.
SliceLast(data, k) ==
    SubSeq(data, IF Len(data) > k THEN Len(data) - k + 1 ELSE 1, Len(data))

\* sortedData: the sequence the regression runs over.
SortedData(usageData) == SliceLast(SortByDate(usageData), Window)

\* The running sums of the forEach, x = index.
SumX(sd) == Sigma([k \in 1..Len(sd) |-> k - 1], Len(sd))

SumY(sd) == Sigma([k \in 1..Len(sd) |-> sd[k].usage], Len(sd))

SumXY(sd) == Sigma([k \in 1..Len(sd) |-> (k - 1) * sd[k].usage], Len(sd))

\* Mutant of SumXX: sums x, not x * x.
SumXXUnsquared(sd) == Sigma([k \in 1..Len(sd) |-> k - 1], Len(sd))

SumXX(sd) == Sigma([k \in 1..Len(sd) |-> (k - 1) * (k - 1)], Len(sd))

\* Mutant of Slope: the denominator lacks the square of sumX.
SlopeUnsquared(sd) ==
    LET n == Len(sd)
    IN  Frac(n * SumXY(sd) - SumX(sd) * SumY(sd), n * SumXX(sd) - SumX(sd))

\* Every entry of sd has a usage that is a number.  An entry whose usage is
\* NaN makes sumY and sumXY NaN, and with them the slope and the intercept.
Numeric(sd) == \A k \in DOMAIN sd : "usage" \in DOMAIN sd[k]

Slope(sd) ==
    LET n == Len(sd)
    IN  IF ~Numeric(sd) THEN NaN
        ELSE Frac(n * SumXY(sd) - SumX(sd) * SumY(sd),
                  n * SumXX(sd) - SumX(sd) * SumX(sd))

Intercept(sd) ==
    IF ~Numeric(sd) THEN NaN
    ELSE FDiv(FSub(FInt(SumY(sd)), FMul(Slope(sd), FInt(SumX(sd)))), FInt(Len(sd)))

\* slope * (n + i - 1) + intercept, before the clamp.
Projection(sd, i) ==
    FAdd(FMul(Slope(sd), FInt(Len(sd) + i - 1)), Intercept(sd))

\* The i-th element pushed on predictions, as c.json writes it: a NaN is
\* written null.
Prediction(zone, t, sd, i) ==
    LET predictedUsage == MaxZero(Projection(sd, i))
    IN  [date           |-> ToISODate(SetDatePlus(zone, t, i)),
         predictedUsage |-> IF IsNaN(predictedUsage) THEN Null
                            ELSE Round2(predictedUsage)]

PredictResponse(zone, t, usageData) ==
    IF Len(usageData) < MinEntries
    THEN [status |-> 200,
          body   |-> [prediction |-> Null,
                      message    |-> "Need at least 7 days of data for prediction"]]
    ELSE LET sd == SortedData(usageData)
         IN  [status |-> 200,
              body   |-> [predictions |->
                              [i \in 1..Horizon |-> Prediction(zone, t, sd, i)]]]

PredictUsage(token) ==
    LET user == GetUser(token)
    IN  /\ req' = [op |-> "predict-usage", token |-> token, at |-> now]
        /\ resp' = IF user = NoUser THEN Unauthorized
                   ELSE PredictResponse(tz, now, GetByPrefix(kv, user))
        /\ UNCHANGED <<tz, now, kv, apiKey, llm, inflight, accounts, verified, usageAlerts>>

-----------------------------------------------------------------------------
(* POST /calculate-bill.                                                   *)

\* An optional field of a request body: <<>> when absent, <<v>> when given.
Omitted == <<>>

Given(v) == <<v>>

\* const { ratePerKwh = 0.12 } = body: the default applies when it is absent.
RateOf(rate) == IF rate = Omitted THEN 120 ELSE rate[1]

\* usageData.filter(...): the entries whose date, read in the server's zone,
\* falls in the month and year asked for.
InMonth(zone, entry, month, year) ==
    /\ GetMonth(zone, DateParse(entry.date)) = month - 1
    /\ GetFullYear(zone, DateParse(entry.date)) = year

MonthlyData(zone, usageData, month, year) ==
    SelectSeq(usageData, LAMBDA e : InMonth(zone, e, month, year))

\* data.reduce((sum, entry) => sum + entry.usage, 0).
RECURSIVE TotalUsage(_)
TotalUsage(data) ==
    IF data = <<>> THEN 0
    ELSE TotalUsage(SubSeq(data, 1, Len(data) - 1)) + data[Len(data)].usage

\* Mutant of BillData: the total runs over all entries, not the month's.
BillDataUnfiltered(zone, usageData, month, year, rate) ==
    LET monthlyData == MonthlyData(zone, usageData, month, year)
        totalUsage  == TotalUsage(usageData)
    IN  [month         |-> month,
         year          |-> year,
         totalUsage    |-> totalUsage,
         ratePerKwh    |-> RateOf(rate),
         estimatedCost |-> totalUsage * RateOf(rate),
         entriesCount  |-> Len(monthlyData)]

BillData(zone, usageData, month, year, rate) ==
    LET monthlyData == MonthlyData(zone, usageData, month, year)
        totalUsage  == TotalUsage(monthlyData)
    IN  [month         |-> month,
         year          |-> year,
         totalUsage    |-> totalUsage,
         ratePerKwh    |-> RateOf(rate),
         estimatedCost |-> totalUsage * RateOf(rate),
         entriesCount  |-> Len(monthlyData)]

CalculateBill(token, month, year, rate) ==
    LET user == GetUser(token)
    IN  /\ req' = [op |-> "calculate-bill", token |-> token, at |-> now,
                   month |-> month, year |-> year, ratePerKwh |-> rate]
        /\ resp' = IF user = NoUser THEN Unauthorized
                   ELSE [status |-> 200,
                         body   |-> [bill |-> BillData(tz, GetByPrefix(kv, user),
                                                       month, year, rate)]]
        /\ UNCHANGED <<tz, now, kv, apiKey, llm, inflight, accounts, verified, usageAlerts>>

-----------------------------------------------------------------------------
(* GET /energy-tips.                                                       *)

Max(a, b) == IF a > b THEN a ELSE b

\* Mutant of AvgDailyUsage: divides by the length itself.
AvgDailyUsageUnguarded(usageData) == Frac(TotalUsage(usageData), Len(usageData))

\* totalUsage / Math.max(usageData.length, 1).
AvgDailyUsage(usageData) == Frac(TotalUsage(usageData), Max(Len(usageData), 1))

\* The tip texts (the degree sign of the water-heater tip is left out).
TipLed == "Your daily usage is quite high. Consider switching to LED bulbs to reduce consumption by up to 80%."
TipUnplug == "Unplug electronics when not in use to avoid phantom power drain."
TipEnergyStar == "Consider upgrading to ENERGY STAR certified appliances for significant savings."
TipThermostat == "Set your thermostat 2-3 degrees higher in summer and lower in winter."
TipHvac == "HVAC is your biggest energy consumer. Regular maintenance can improve efficiency by 15%."
TipWaterHeater == "Lower your water heater temperature to 120F to save energy without sacrificing comfort."
TipGreatJob == "Great job maintaining low energy usage! Consider solar panels for even greater savings."
TipPowerStrip == "Smart power strips can help eliminate standby power consumption."

\* Object.keys(applianceUsage): the appliance labels in order of first use.
RECURSIVE ApplianceKeys(_)
ApplianceKeys(data) ==
    IF data = <<>> THEN <<>>
    ELSE LET front == ApplianceKeys(SubSeq(data, 1, Len(data) - 1))
             a     == data[Len(data)].appliance
         IN  IF \E k \in DOMAIN front : front[k] = a THEN front ELSE Append(front, a)

\* applianceUsage[a], for a label that is a key of the map.
ApplianceUsage(data, a) ==
    TotalUsage(SelectSeq(data, LAMBDA e : e.appliance = a))

HasAppliance(data, a) == \E k \in DOMAIN data : data[k].appliance = a

\* applianceUsage[a] > applianceUsage[b] for a key b: false when a is not a
\* key, its usage being undefined.
UsageGreater(data, a, b) ==
    HasAppliance(data, a) /\ ApplianceUsage(data, a) > ApplianceUsage(data, b)

\* keys.reduce((a, b) => applianceUsage[a] > applianceUsage[b] ? a : b, 'General').
RECURSIVE ReduceTop(_, _)
ReduceTop(data, keys) ==
    IF keys = <<>> THEN "General"
    ELSE LET a == ReduceTop(data, SubSeq(keys, 1, Len(keys) - 1))
             b == keys[Len(keys)]
         IN  IF UsageGreater(data, a, b) THEN a ELSE b

TopAppliance(data) == ReduceTop(data, ApplianceKeys(data))

\* Mutant of UsageTips: the rule for an average above 50 is applied first.
UsageTipsReordered(avg) ==
    (IF FGt(avg, FInt(50)) THEN <<TipEnergyStar, TipThermostat>> ELSE <<>>) \o
    (IF FGt(avg, FInt(30)) THEN <<TipLed, TipUnplug>> ELSE <<>>)

UsageTips(avg) ==
    (IF FGt(avg, FInt(30)) THEN <<TipLed, TipUnplug>> ELSE <<>>) \o
    (IF FGt(avg, FInt(50)) THEN <<TipEnergyStar, TipThermostat>> ELSE <<>>)

ApplianceTips(top) ==
    IF top = "HVAC" THEN <<TipHvac>>
    ELSE IF top = "Water Heater" THEN <<TipWaterHeater>>
    ELSE <<>>

\* Mutant of Tips: no generic tips when no rule fired.
TipsWithoutFallback(usageData) ==
    UsageTips(AvgDailyUsage(usageData)) \o ApplianceTips(TopAppliance(usageData))

\* Mutant of Tips: the generic tips are appended whenever at most one rule
\* fired.
TipsFallbackAppended(usageData) ==
    LET tips == UsageTips(AvgDailyUsage(usageData)) \o
                ApplianceTips(TopAppliance(usageData))
    IN  IF Len(tips) <= 1 THEN tips \o <<TipGreatJob, TipPowerStrip>> ELSE tips

Tips(usageData) ==
    LET tips == UsageTips(AvgDailyUsage(usageData)) \o
                ApplianceTips(TopAppliance(usageData))
    IN  IF Len(tips) = 0 THEN <<TipGreatJob, TipPowerStrip>> ELSE tips

EnergyTips(token) ==
    LET user == GetUser(token)
    IN  /\ req' = [op |-> "energy-tips", token |-> token, at |-> now]
        /\ resp' = IF user = NoUser THEN Unauthorized
                   ELSE [status |-> 200,
                         body   |-> [tips |-> Tips(GetByPrefix(kv, user))]]
        /\ UNCHANGED <<tz, now, kv, apiKey, llm, inflight, accounts, verified, usageAlerts>>

-----------------------------------------------------------------------------
(* POST /chat.                                                             *)

\* avgDaily.toFixed(1), in tenths.
ToFixed1(f) == IF IsNaN(f) THEN NaN ELSE FInt((20 * f.num + f.den) \div (2 * f.den))

\* contextInfo: empty unless the user has entries.
ContextInfo(usageData) ==
    IF Len(usageData) > 0
    THEN [entries  |-> Len(usageData),
          avgDaily |-> ToFixed1(Frac(TotalUsage(usageData), Len(usageData)))]
    ELSE [entries |-> 0]

\* Bound on the prompts recorded.
MaxLlmCalls == 1

\* The outcomes of the call to the model API.
LlmOutcomes == {"text", "no-candidates", "http-error"}

ChatResponse(outcome) ==
    CASE outcome = "http-error" ->
            [status |-> 500, body |-> [error |-> "Failed to get AI response", fallback |-> TRUE]]
      [] outcome = "no-candidates" ->
            [status |-> 200,
             body |-> [response |-> "I couldn't generate a response. Please try rephrasing your question.",
                       fallback |-> TRUE]]
      [] outcome = "text" ->
            [status |-> 200, body |-> [response |-> "text", fallback |-> FALSE]]

\* Mutant of Chat: the prompt is sent before the token is looked at.
ChatBeforeAuth(token, message, outcome) ==
    LET user == GetUser(token)
    IN  /\ Len(llm) < MaxLlmCalls
        /\ req' = [op |-> "chat", token |-> token, at |-> now, message |-> message]
        /\ llm' = Append(llm, ContextInfo(GetByPrefix(kv, user)))
        /\ resp' = IF user = NoUser THEN Unauthorized ELSE ChatResponse(outcome)
        /\ UNCHANGED <<tz, now, kv, apiKey, inflight, accounts, verified, usageAlerts>>

Chat(token, message, outcome) ==
    LET user == GetUser(token)
    IN  /\ Len(llm) < MaxLlmCalls
        /\ req' = [op |-> "chat", token |-> token, at |-> now, message |-> message]
        /\ IF user = NoUser
           THEN resp' = Unauthorized /\ llm' = llm
           ELSE IF message = ""
           THEN /\ resp' = [status |-> 400, body |-> [error |-> "Message is required"]]
                /\ llm' = llm
           ELSE IF ~apiKey
           THEN /\ resp' = [status |-> 200,
                            body |-> [response |-> "API key not configured.",
                                      fallback |-> TRUE]]
                /\ llm' = llm
           ELSE /\ llm' = Append(llm, ContextInfo(GetByPrefix(kv, user)))
                /\ resp' = ChatResponse(outcome)
        /\ UNCHANGED <<tz, now, kv, apiKey, inflight, accounts, verified, usageAlerts>>

-----------------------------------------------------------------------------
(* POST /energy-usage, GET /energy-usage and GET /export-csv.  The texts   *)
(* of a request body and of the CSV are strings.  A stored entry whose     *)
(* usage is NaN has no usage field: one field cannot hold a number in one  *)
(* entry and something else in another.                                    *)

DigitChars == "0123456789"

IsDigit(c) == \E d \in 1..10 : SubSeq(DigitChars, d, d) = c

DigitValue(c) == (CHOOSE d \in 1..10 : SubSeq(DigitChars, d, d) = c) - 1

\* The number of digits text begins with.
DigitsPrefix(text) ==
    CHOOSE n \in 0..Len(text) :
        /\ \A k \in 1..n : IsDigit(SubSeq(text, k, k))
        /\ n < Len(text) => ~IsDigit(SubSeq(text, n + 1, n + 1))

\* The number a text of digits writes.
RECURSIVE NaturalOf(_)
NaturalOf(digits) ==
    IF digits = "" THEN 0
    ELSE 10 * NaturalOf(SubSeq(digits, 1, Len(digits) - 1)) +
         DigitValue(SubSeq(digits, Len(digits), Len(digits)))

\* The text without the blanks it begins with.
TrimStart(text) ==
    LET n == CHOOSE n \in 0..Len(text) :
                /\ \A k \in 1..n : SubSeq(text, k, k) = " "
                /\ n < Len(text) => SubSeq(text, n + 1, n + 1) # " "
    IN  SubSeq(text, n + 1, Len(text))

\* parseFloat of a text of signs, digits and letters: the whole number the
\* longest prefix that is one writes, <<>> (NaN) when there is none.
ParseFloat(text) ==
    LET t      == TrimStart(text)
        signed == Len(t) > 0 /\ SubSeq(t, 1, 1) \in {"-", "+"}
        rest   == IF signed THEN SubSeq(t, 2, Len(t)) ELSE t
        n      == DigitsPrefix(rest)
        value  == NaturalOf(SubSeq(rest, 1, n))
    IN  IF n = 0 THEN <<>>
        ELSE IF signed /\ SubSeq(t, 1, 1) = "-" THEN <<-value>> ELSE <<value>>

\* A record without one of its fields.
Without(r, f) == [g \in DOMAIN r \ {f} |-> r[g]]

\* usageData of POST /energy-usage for a request body at clock reading t.
\* A field the body lacks is undefined: parseFloat makes NaN of it.
StoredUsage(uid, body, t) ==
    LET usage == IF "usage" \in DOMAIN body THEN ParseFloat(body.usage) ELSE <<>>
        cost  == IF "cost" \in DOMAIN body THEN ParseFloat(body.cost) ELSE <<>>
        full  == [userId    |-> uid,
                  date      |-> body.date,
                  usage     |-> IF usage = <<>> THEN 0 ELSE usage[1],
                  appliance |-> IF "appliance" \in DOMAIN body /\ body.appliance # ""
                                THEN body.appliance ELSE "General",
                  cost      |-> IF cost = <<>> THEN 0 ELSE cost[1],
                  timestamp |-> t]
    IN  IF usage = <<>> THEN Without(full, "usage") ELSE full

\* A body that is not JSON makes c.req.json() throw: the catch answers 500.
IsJson(body) == "malformed" \notin DOMAIN body

PostEnergyUsage(token, body) ==
    LET user      == GetUser(token)
        usageData == StoredUsage(user, body, now)
    IN  /\ req' = [op |-> "post-energy-usage", token |-> token, at |-> now,
                   body |-> body]
        /\ IF user = NoUser
           THEN resp' = Unauthorized /\ kv' = kv
           ELSE IF ~IsJson(body)
           THEN /\ resp' = [status |-> 500,
                            body |-> [error |-> "Failed to add energy usage"]]
                /\ kv' = kv
           ELSE /\ kv' = KvSet(kv, UsageKey(user, now), usageData)
                /\ resp' = [status |-> 200,
                            body |-> [success |-> TRUE, data |-> usageData]]
        /\ UNCHANGED <<tz, now, apiKey, llm, inflight, accounts, verified, usageAlerts>>

\* usageData.sort((a, b) => time(b.timestamp) - time(a.timestamp)): stable,
\* latest first.
RECURSIVE InsertByTimestamp(_, _)
InsertByTimestamp(sorted, e) ==
    IF sorted = <<>> THEN <<e>>
    ELSE LET last == sorted[Len(sorted)]
         IN  IF e.timestamp - last.timestamp <= 0
             THEN Append(sorted, e)
             ELSE Append(InsertByTimestamp(SubSeq(sorted, 1, Len(sorted) - 1), e), last)

RECURSIVE SortByTimestamp(_)
SortByTimestamp(data) ==
    IF data = <<>> THEN <<>>
    ELSE InsertByTimestamp(SortByTimestamp(SubSeq(data, 1, Len(data) - 1)),
                           data[Len(data)])

\* Every usage entry of the store, whoever wrote it.
AllUsage(store) ==
    ValuesInKeyOrder(store, {k \in DOMAIN store : k[1] = "usage"})

\* Mutant of GetEnergyUsage: the entries of every user are listed.
GetEnergyUsageOfAll(token) ==
    LET user == GetUser(token)
    IN  /\ req' = [op |-> "energy-usage", token |-> token, at |-> now]
        /\ resp' = IF user = NoUser THEN Unauthorized
                   ELSE [status |-> 200,
                         body   |-> [data |-> SortByTimestamp(AllUsage(kv))]]
        /\ UNCHANGED <<tz, now, kv, apiKey, llm, inflight, accounts, verified, usageAlerts>>

GetEnergyUsage(token) ==
    LET user == GetUser(token)
    IN  /\ req' = [op |-> "energy-usage", token |-> token, at |-> now]
        /\ resp' = IF user = NoUser THEN Unauthorized
                   ELSE [status |-> 200,
                         body   |-> [data |-> SortByTimestamp(GetByPrefix(kv, user))]]
        /\ UNCHANGED <<tz, now, kv, apiKey, llm, inflight, accounts, verified, usageAlerts>>

\* The decimal text of an integer.
RECURSIVE NaturalText(_)
NaturalText(n) ==
    IF n < 10 THEN SubSeq(DigitChars, n + 1, n + 1)
    ELSE NaturalText(n \div 10) \o SubSeq(DigitChars, (n % 10) + 1, (n % 10) + 1)

NumberText(n) == IF n < 0 THEN "-" \o NaturalText(-n) ELSE NaturalText(n)

\* The text of a date, as the request gave it: YYYY-MM-DD.
DateText(date) ==
    LET pad(n) == IF n < 10 THEN "0" \o NaturalText(n) ELSE NaturalText(n)
    IN  NaturalText(date.y) \o "-" \o pad(date.m) \o "-" \o pad(date.d)

\* parts.join(sep).
RECURSIVE Join(_, _)
Join(parts, sep) ==
    IF parts = <<>> THEN ""
    ELSE IF Len(parts) = 1 THEN parts[1]
    ELSE Join(SubSeq(parts, 1, Len(parts) - 1), sep) \o sep \o parts[Len(parts)]

CsvHeaders == <<"Date", "Usage (kWh)", "Appliance", "Cost ($)">>

\* [entry.date, entry.usage, entry.appliance, entry.cost || 0], each as the
\* text join makes of it.
CsvRow(entry) ==
    <<DateText(entry.date),
      IF "usage" \in DOMAIN entry THEN NumberText(entry.usage) ELSE "NaN",
      entry.appliance,
      NumberText(entry.cost)>>

CsvContent(usageData) ==
    Join(<<Join(CsvHeaders, ",")>> \o
         [k \in 1..Len(usageData) |-> Join(CsvRow(usageData[k]), ",")], "\n")

\* Mutant of ExportCsv: the exported entries are removed from the store.
ExportCsvClearing(token) ==
    LET user == GetUser(token)
    IN  /\ req' = [op |-> "export-csv", token |-> token, at |-> now]
        /\ resp' = IF user = NoUser THEN Unauthorized
                   ELSE [status |-> 200,
                         body   |-> [csv |-> CsvContent(GetByPrefix(kv, user))]]
        /\ kv' = [k \in DOMAIN kv \ UsageKeys(kv, user) |-> kv[k]]
        /\ UNCHANGED <<tz, now, apiKey, llm, inflight, accounts, verified, usageAlerts>>

ExportCsv(token) ==
    LET user == GetUser(token)
    IN  /\ req' = [op |-> "export-csv", token |-> token, at |-> now]
        /\ resp' = IF user = NoUser THEN Unauthorized
                   ELSE [status |-> 200,
                         body   |-> [csv |-> CsvContent(GetByPrefix(kv, user))]]
        /\ UNCHANGED <<tz, now, kv, apiKey, llm, inflight, accounts, verified, usageAlerts>>

-----------------------------------------------------------------------------
(* Usage that is not a whole number of kWh.  parseFloat makes the usage of *)
(* a request an IEEE 754 double, and the handlers add and multiply doubles,*)
(* rounding each result to the nearest double (ties to even).  A double    *)
(* here is zero or positive: [m, e] is the number written in binary by the *)
(* bits m (most significant first, 53 of them, the first one 1) times      *)
(* 2^e; zero has no bits.                                                  *)

\* The bits of a double's significand.
Precision == 53

Min(a, b) == IF a < b THEN a ELSE b

Zeros(n) == [k \in 1..n |-> 0]

\* A natural number in binary without leading zeros; 0 is <<>>.
Trim(b) ==
    IF \A k \in DOMAIN b : b[k] = 0 THEN <<>>
    ELSE LET f == CHOOSE k \in DOMAIN b : b[k] = 1 /\ \A j \in 1..(k - 1) : b[j] = 0
         IN  SubSeq(b, f, Len(b))

\* Sums and products are worked out on limbs of LimbBits bits, so that no
\* intermediate value leaves the integers at hand.
LimbBits == 13

\* The limbs of the natural number with bits b, most significant first.
ToLimbs(b) ==
    LET n == (Len(b) + LimbBits - 1) \div LimbBits
        p == Zeros(n * LimbBits - Len(b)) \o b
    IN  [i \in 1..n |->
            Sigma([k \in 1..LimbBits |-> p[(i - 1) * LimbBits + k] * 2^(LimbBits - k)],
                  LimbBits)]

LimbsToBits(l) ==
    [j \in 1..(Len(l) * LimbBits) |->
        (l[(j - 1) \div LimbBits + 1] \div 2^(LimbBits - 1 - ((j - 1) % LimbBits))) % 2]

FromLimbs(l) == Trim(LimbsToBits(l))

\* The limbs of the number whose limbs l may exceed a limb, with carry c.
RECURSIVE Carry(_, _)
Carry(l, c) ==
    IF l = <<>>
    THEN IF c = 0 THEN <<>> ELSE Append(Carry(<<>>, c \div 2^LimbBits), c % 2^LimbBits)
    ELSE LET t == l[Len(l)] + c
         IN  Append(Carry(SubSeq(l, 1, Len(l) - 1), t \div 2^LimbBits), t % 2^LimbBits)

BitAdd(a, b) ==
    LET la == ToLimbs(a)
        lb == ToLimbs(b)
        n  == Max(Len(la), Len(lb))
        pa == Zeros(n - Len(la)) \o la
        pb == Zeros(n - Len(lb)) \o lb
    IN  FromLimbs(Carry([i \in 1..n |-> pa[i] + pb[i]], 0))

BitMul(a, b) ==
    LET la == ToLimbs(a)
        lb == ToLimbs(b)
        n  == Len(la)
        m  == Len(lb)
    IN  FromLimbs(Carry([k \in 1..(n + m - 1) |->
                            Sigma([i \in 1..n |->
                                      IF (k + 1 - i) \in 1..m
                                      THEN la[i] * lb[k + 1 - i] ELSE 0], n)], 0))

DZero == [m |-> <<>>, e |-> 0]

\* The double nearest to the exact binary number x, ties to even.
DRound(x) ==
    IF x.m = <<>> THEN DZero
    ELSE LET len == Len(x.m)
         IN  IF len <= Precision
             THEN [m |-> x.m \o Zeros(Precision - len), e |-> x.e - (Precision - len)]
             ELSE LET kept   == SubSeq(x.m, 1, Precision)
                      guard  == x.m[Precision + 1]
                      sticky == \E k \in (Precision + 2)..len : x.m[k] = 1
                      up     == guard = 1 /\ (sticky \/ kept[Precision] = 1)
                      r      == IF up THEN BitAdd(kept, <<1>>) ELSE kept
                  IN  IF Len(r) > Precision
                      THEN [m |-> SubSeq(r, 1, Precision), e |-> x.e + (len - Precision) + 1]
                      ELSE [m |-> r, e |-> x.e + (len - Precision)]

\* The exact sum and product of two binary numbers.
ExactAdd(a, b) ==
    IF a.m = <<>> THEN b
    ELSE IF b.m = <<>> THEN a
    ELSE LET e == Min(a.e, b.e)
         IN  [m |-> BitAdd(a.m \o Zeros(a.e - e), b.m \o Zeros(b.e - e)), e |-> e]

ExactMul(a, b) ==
    IF a.m = <<>> \/ b.m = <<>> THEN DZero
    ELSE [m |-> BitMul(a.m, b.m), e |-> a.e + b.e]

\* a + b and a * b of JavaScript numbers.
DAdd(a, b) == DRound(ExactAdd(a, b))

DMul(a, b) == DRound(ExactMul(a, b))

\* p / q with q doubled or p doubled until 1 <= p / q < 2; k counts the
\* doublings: the ratio asked for is 2^k times the one returned.
RECURSIVE Scale(_, _, _)
Scale(p, q, k) ==
    IF p >= 2 * q THEN Scale(p, 2 * q, k + 1)
    ELSE IF p < q THEN Scale(2 * p, q, k - 1)
    ELSE [p |-> p, q |-> q, k |-> k]

\* The next count limbs of r / q < 1 in binary, and what is left over.
RECURSIVE DivLimbs(_, _, _)
DivLimbs(r, q, count) ==
    IF count = 0 THEN [limbs |-> <<>>, rem |-> r]
    ELSE LET t    == r * 2^LimbBits
             rest == DivLimbs(t % q, q, count - 1)
         IN  [limbs |-> <<t \div q>> \o rest.limbs, rem |-> rest.rem]

\* parseFloat of the decimal text of n / d (d a power of ten, n >= 0): the
\* double nearest to n / d.  The quotient is taken to more bits than a
\* double has, with one more bit telling whether anything is left over.
DParseFloat(n, d) ==
    IF n = 0 THEN DZero
    ELSE LET s     == Scale(n, d, 0)
             count == (Precision + LimbBits) \div LimbBits
             quot  == DivLimbs(s.p - s.q, s.q, count)
         IN  DRound([m |-> <<1>> \o LimbsToBits(quot.limbs) \o
                              <<IF quot.rem = 0 THEN 0 ELSE 1>>,
                     e |-> s.k - count * LimbBits - 1])

\* data.reduce((sum, entry) => sum + entry.usage, 0) on doubles.
RECURSIVE DTotalUsage(_)
DTotalUsage(data) ==
    IF data = <<>> THEN DZero
    ELSE DAdd(DTotalUsage(SubSeq(data, 1, Len(data) - 1)), data[Len(data)].usage)

\* const { ratePerKwh = 0.12 } = body, as a double.
DRateOf(rate) == IF rate = Omitted THEN DParseFloat(12, 100) ELSE rate[1]

\* billData for entries whose usage is a double.
DBillData(zone, usageData, month, year, rate) ==
    LET monthlyData == MonthlyData(zone, usageData, month, year)
        totalUsage  == DTotalUsage(monthlyData)
    IN  [month         |-> month,
         year          |-> year,
         totalUsage    |-> totalUsage,
         ratePerKwh    |-> DRateOf(rate),
         estimatedCost |-> DMul(totalUsage, DRateOf(rate)),
         entriesCount  |-> Len(monthlyData)]

\* POST /calculate-bill on a store whose usages are doubles.
CalculateBillOfDoubles(token, month, year, rate) ==
    LET user == GetUser(token)
    IN  /\ req' = [op |-> "calculate-bill", token |-> token, at |-> now,
                   month |-> month, year |-> year, ratePerKwh |-> rate]
        /\ resp' = IF user = NoUser THEN Unauthorized
                   ELSE [status |-> 200,
                         body   |-> [bill |-> DBillData(tz, GetByPrefix(kv, user),
                                                        month, year, rate)]]
        /\ UNCHANGED <<tz, now, kv, apiKey, llm, inflight, accounts, verified, usageAlerts>>

-----------------------------------------------------------------------------
(* GET and POST /energy-goal, GET and POST /alert-settings.  The handlers  *)
(* take the user from the path or the body; the bearer token of the        *)
(* request is part of the request and is not looked at.                    *)

\* kv.get(key): the value under the key, <<>> when there is none.
KvGet(store, key) == IF key \in DOMAIN store THEN <<store[key]>> ELSE <<>>

\* kv.del(key).
KvDel(store, key) == [k \in DOMAIN store \ {key} |-> store[k]]

\* The keys `goal:${userId}` and `alerts:${userId}`.
GoalKey(userId) == <<"goal", userId>>

AlertsKey(userId) == <<"alerts", userId>>

\* An optional text field is truthy: given and not "".
TruthyText(field) == field # <<>> /\ field # <<"">>

\* An optional number field is truthy: given and not 0.
TruthyNumber(field) == field # <<>> /\ field # <<0>>

\* goalData?.goal || 0.
GetEnergyGoal(token, userId) ==
    LET goalData == KvGet(kv, GoalKey(userId))
    IN  /\ req' = [op |-> "get-energy-goal", token |-> token, at |-> now,
                   userId |-> userId]
        /\ resp' = [status |-> 200,
                    body   |-> [goal |-> IF goalData = <<>> THEN 0
                                         ELSE goalData[1].goal]]
        /\ UNCHANGED <<tz, now, kv, apiKey, llm, inflight, accounts, verified, usageAlerts>>

MissingFields == [status |-> 400, body |-> [error |-> "Missing required fields"]]

PostEnergyGoal(token, body) ==
    /\ req' = [op |-> "post-energy-goal", token |-> token, at |-> now, body |-> body]
    /\ IF ~TruthyText(body.userId) \/ ~TruthyNumber(body.goal)
       THEN resp' = MissingFields /\ kv' = kv
       ELSE /\ kv' = KvSet(kv, GoalKey(body.userId[1]),
                           [userId |-> body.userId[1], goal |-> body.goal[1],
                            updatedAt |-> now])
            /\ resp' = [status |-> 200,
                        body   |-> [success |-> TRUE, goal |-> body.goal[1]]]
    /\ UNCHANGED <<tz, now, apiKey, llm, inflight, accounts, verified, usageAlerts>>

\* The threshold GET /alert-settings and the component fall back on.
DefaultThreshold == 50

\* alertData?.enabled || false and alertData?.threshold || 50.
AlertSettingsOf(alertData) ==
    [enabled   |-> IF alertData = <<>> THEN FALSE ELSE alertData[1].enabled,
     threshold |-> IF alertData = <<>> \/ alertData[1].threshold = 0
                   THEN DefaultThreshold ELSE alertData[1].threshold]

GetAlertSettings(token, userId) ==
    /\ req' = [op |-> "get-alert-settings", token |-> token, at |-> now,
               userId |-> userId]
    /\ resp' = [status |-> 200, body |-> AlertSettingsOf(KvGet(kv, AlertsKey(userId)))]
    /\ UNCHANGED <<tz, now, kv, apiKey, llm, inflight, accounts, verified, usageAlerts>>

\* What POST /alert-settings does to the store and answers; threshold is
\* required to be present, not to be truthy.
SavedAlerts(store, body, t) ==
    KvSet(store, AlertsKey(body.userId[1]),
          [userId |-> body.userId[1], enabled |-> body.enabled,
           threshold |-> body.threshold[1], updatedAt |-> t])

PostAlertSettings(token, body) ==
    /\ req' = [op |-> "post-alert-settings", token |-> token, at |-> now, body |-> body]
    /\ IF ~TruthyText(body.userId) \/ body.threshold = <<>>
       THEN resp' = MissingFields /\ kv' = kv
       ELSE /\ kv' = SavedAlerts(kv, body, now)
            /\ resp' = [status |-> 200,
                        body   |-> [success |-> TRUE, enabled |-> body.enabled,
                                    threshold |-> body.threshold[1]]]
    /\ UNCHANGED <<tz, now, apiKey, llm, inflight, accounts, verified, usageAlerts>>

-----------------------------------------------------------------------------
(* POST /generate-otp, POST /verify-otp and POST /signup.  Here the clock  *)
(* counts minutes.  verify-otp reads the stored OTP with one awaited call  *)
(* and deletes it with another: other requests are served between the two, *)
(* so the handler is two steps, and inflight holds the calls between them. *)

\* The key `otp:${email}`.
OtpKey(email) == <<"otp", email>>

\* 10 * 60 * 1000 ms, in minutes.
OtpLifetime == 10

GenerateOtp(email, otp) ==
    /\ req' = [op |-> "generate-otp", email |-> email]
    /\ IF email = ""
       THEN resp' = [status |-> 400, body |-> [error |-> "Email is required"]] /\ kv' = kv
       ELSE /\ kv' = KvSet(kv, OtpKey(email),
                           [otp |-> otp, expiresAt |-> now + OtpLifetime, email |-> email])
            /\ resp' = [status |-> 200, body |-> [success |-> TRUE, otp |-> otp]]
    /\ UNCHANGED <<tz, now, apiKey, llm, inflight, accounts, verified, usageAlerts>>

\* verify-otp up to the return of kv.get.
VerifyOtpGet(email, otp) ==
    IF email = "" \/ otp = ""
    THEN /\ req' = [op |-> "verify-otp", email |-> email, otp |-> otp]
         /\ resp' = [status |-> 400, body |-> [error |-> "Email and OTP are required"]]
         /\ UNCHANGED <<tz, now, kv, apiKey, llm, inflight, accounts, verified, usageAlerts>>
    ELSE /\ inflight' = Append(inflight, [email |-> email, otp |-> otp,
                                         storedData |-> KvGet(kv, OtpKey(email))])
         /\ UNCHANGED <<tz, now, kv, apiKey, llm, req, resp, accounts, verified, usageAlerts>>

\* s without its i-th element.
RemoveAt(s, i) == SubSeq(s, 1, i - 1) \o SubSeq(s, i + 1, Len(s))

OtpRefused(message) == [status |-> 400, body |-> [error |-> message]]

OtpVerified ==
    [status |-> 200, body |-> [success |-> TRUE, message |-> "OTP verified successfully"]]

\* verify-otp from the return of kv.get to the answer.
VerifyOtpAnswer(i) ==
    LET call       == inflight[i]
        storedData == call.storedData
    IN  /\ req' = [op |-> "verify-otp", email |-> call.email, otp |-> call.otp]
        /\ inflight' = RemoveAt(inflight, i)
        /\ IF storedData = <<>>
           THEN resp' = OtpRefused("OTP not found or expired")
                /\ UNCHANGED <<kv, verified>>
           ELSE IF now > storedData[1].expiresAt
           THEN resp' = OtpRefused("OTP has expired")
                /\ kv' = KvDel(kv, OtpKey(call.email)) /\ verified' = verified
           ELSE IF storedData[1].otp # call.otp
           THEN resp' = OtpRefused("Invalid OTP") /\ UNCHANGED <<kv, verified>>
           ELSE /\ resp' = OtpVerified
                /\ kv' = KvDel(kv, OtpKey(call.email))
                /\ verified' = verified \cup {call.email}
        /\ UNCHANGED <<tz, now, apiKey, llm, accounts, usageAlerts>>

\* supabase.auth.admin.createUser: refuses an email that has an account,
\* and may fail otherwise.
Signup(email, outcome) ==
    /\ req' = [op |-> "signup", email |-> email]
    /\ IF email \in accounts \/ outcome = "error"
       THEN resp' = [status |-> 400, body |-> [error |-> "createUser failed"]]
            /\ UNCHANGED <<accounts, verified>>
       ELSE /\ accounts' = accounts \cup {email}
            /\ verified' = verified \ {email}
            /\ resp' = [status |-> 200, body |-> [user |-> email]]
    /\ UNCHANGED <<tz, now, kv, apiKey, llm, inflight, usageAlerts>>

-----------------------------------------------------------------------------
(* The server's environment and the stores the checks start from.          *)

UTCZone == [name |-> "UTC", std |-> 0, dst |-> 0, dstStart |-> 0]

\* Europe/London: summer time from 2024-03-31T01:00Z.
LondonZone ==
    [name |-> "Europe/London", std |-> 0, dst |-> 1,
     dstStart |-> DayNumber(2024, 3, 31) * 24 + 1]

\* America/New_York: summer time from 2024-03-10T07:00Z.
NewYorkZone ==
    [name |-> "America/New_York", std |-> -5, dst |-> -4,
     dstStart |-> DayNumber(2024, 3, 10) * 24 + 7]

KarachiZone == [name |-> "Asia/Karachi", std |-> 5, dst |-> 5, dstStart |-> 0]

Zones == {UTCZone, LondonZone, NewYorkZone, KarachiZone}

Date(y, m, d) == [y |-> y, m |-> m, d |-> d]

\* What POST /energy-usage stores for a request.
UsageData(uid, date, usage, appliance, cost, t) ==
    [userId |-> uid, date |-> date, usage |-> usage, appliance |-> appliance,
     cost |-> cost, timestamp |-> t]

\* The store after user u1 wrote the entries s1 and u2 the entries s2, one
\* write per clock tick.
StoreOf(s1, s2) ==
    [k \in {UsageKey("u1", t) : t \in 1..Len(s1)} \cup
           {UsageKey("u2", t) : t \in 1..Len(s2)}
        |-> IF k[2] = "u1" THEN s1[k[3]] ELSE s2[k[3]]]

NoRequest == [op |-> "none", token |-> "invalid", at |-> 0]

\* The accounts of the users of Users, which exist when the server starts.
ExistingAccounts == {"u1@example.com", "u2@example.com"}

\* useState(false), useState(50), useState(true), useState(false) of
\* UsageAlerts, with the usage it is rendered for, the number of high-usage
\* warnings shown and the threshold a load under way has still to set.
InitialAlerts ==
    [alertsEnabled |-> FALSE, threshold |-> 50, loading |-> TRUE, hasAlert |-> FALSE,
     currentDailyUsage |-> 0, warnings |-> 0, unset |-> <<>>]

\* The parts of the system a specification leaves alone: no OTP call under
\* way, no account created, the component as constructed.
Elsewhere ==
    /\ inflight = <<>>
    /\ accounts = ExistingAccounts
    /\ verified = {}
    /\ usageAlerts = InitialAlerts

NoResponse == [status |-> 0, body |-> [error |-> "none"]]

\* Bounds of the usage histories the forecast is checked on.
MaxEntries == 8
MaxBase == 7
MaxStep == 1
MaxBump == 1

\* The date of the k-th stored entry of n under a date pattern.
PatternDate(pattern, n, k) ==
    CivilOfDay(DayNumber(2024, 2, 20) +
        CASE pattern = "ascending"  -> k - 1
          [] pattern = "descending" -> n - k
          [] pattern = "same-day"   -> 0
          [] pattern = "gaps"       -> 3 * (k - 1) + (k % 2))

DatePatterns == {"ascending", "descending", "same-day", "gaps"}

\* Usage histories: a line a + b (k - 1) with one entry moved by c, of a
\* length below the minimum (none, one short of it) or from it upwards.
ForecastLengths == {0, MinEntries - 1} \cup MinEntries..MaxEntries

ForecastInputs ==
    {[k \in 1..n |->
        UsageData("u1", PatternDate(p, n, k),
                  a + b * (k - 1) + (IF k = j THEN c ELSE 0), "General", 0, k)] :
        n \in ForecastLengths, p \in DatePatterns, a \in {0, 1, MaxBase},
        b \in -MaxStep..MaxStep, c \in -MaxBump..MaxBump, j \in 1..MaxEntries}

OtherUserEntries ==
    <<UsageData("u2", Date(2024, 3, 1), 40, "HVAC", 0, 1)>>

ForecastClock == DayNumber(2024, 3, 30) * 24 + 12

InitForecast ==
    /\ tz = UTCZone
    /\ now = ForecastClock
    /\ kv \in {StoreOf(s, OtherUserEntries) : s \in ForecastInputs}
    /\ apiKey = TRUE
    /\ llm = <<>>
    /\ req = NoRequest
    /\ resp = NoResponse
    /\ Elsewhere

NextForecast == \E token \in Tokens : PredictUsage(token)

SpecForecast == InitForecast /\ [][NextForecast]_vars

\* The forecast horizon is checked over the hours from 2024-03-29T20:00Z.
HorizonStart == DayNumber(2024, 3, 29) * 24 + 20

MaxTicks == 8

HorizonInputs ==
    {[k \in 1..n |-> UsageData("u1", PatternDate(p, n, k), 2 + k, "General", 0, k)] :
        n \in {0, MinEntries, MinEntries + 1}, p \in DatePatterns}

\* An hour passes.
Tick ==
    /\ now < HorizonStart + MaxTicks
    /\ now' = now + 1
    /\ UNCHANGED <<tz, kv, apiKey, llm, req, resp, inflight, accounts, verified, usageAlerts>>

InitHorizon ==
    /\ tz \in Zones
    /\ now = HorizonStart
    /\ kv \in {StoreOf(s, OtherUserEntries) : s \in HorizonInputs}
    /\ apiKey = TRUE
    /\ llm = <<>>
    /\ req = NoRequest
    /\ resp = NoResponse
    /\ Elsewhere

NextHorizon ==
    \/ \E token \in Tokens : PredictUsage(token)
    \/ Tick

SpecHorizon == InitHorizon /\ [][NextHorizon]_vars

\* Sequences over a set of at most n elements.
RECURSIVE SeqsUpTo(_, _)
SeqsUpTo(S, n) ==
    IF n = 0 THEN {<<>>}
    ELSE LET shorter == SeqsUpTo(S, n - 1)
         IN  shorter \cup {Append(q, e) : q \in shorter, e \in S}

\* Restamps a sequence of entries with the clock ticks they were written at.
Stamped(q) == [k \in 1..Len(q) |-> [q[k] EXCEPT !.timestamp = k]]

\* The entries the bill is checked on: the first, a middle and the last day
\* of March 2024 and the first day of April 2024.
AggEntries ==
    {UsageData("u1", Date(2024, 3, 1), 10, "General", 0, 0),
     UsageData("u1", Date(2024, 3, 15), 5, "HVAC", 0, 0),
     UsageData("u1", Date(2024, 3, 31), 60, "General", 0, 0),
     UsageData("u1", Date(2024, 4, 1), 100, "Water Heater", 0, 0)}

MaxAggEntries == 2

AggStores ==
    {StoreOf(Stamped(q), OtherUserEntries) : q \in SeqsUpTo(AggEntries, MaxAggEntries)}

BillZones == {UTCZone, NewYorkZone, KarachiZone}

BillMonths == {3, 4, 13}

BillYears == {2024, 2025}

BillRates == {Omitted, Given(200), Given(0), Given(-50)}

InitBill ==
    /\ tz \in BillZones
    /\ now = ForecastClock
    /\ kv \in AggStores
    /\ apiKey = TRUE
    /\ llm = <<>>
    /\ req = NoRequest
    /\ resp = NoResponse
    /\ Elsewhere

NextBill ==
    \E token \in Tokens, month \in BillMonths, year \in BillYears, rate \in BillRates :
        CalculateBill(token, month, year, rate)

SpecBill == InitBill /\ [][NextBill]_vars

\* The three aggregating handlers together, on one billing period.
ChatMessages == {"", "How can I save energy?"}

InitAggregate ==
    /\ tz = UTCZone
    /\ now = ForecastClock
    /\ kv \in AggStores
    /\ apiKey \in BOOLEAN
    /\ llm = <<>>
    /\ req = NoRequest
    /\ resp = NoResponse
    /\ Elsewhere

NextAggregate ==
    \/ \E token \in Tokens, month \in {3, 4} : CalculateBill(token, month, 2024, Omitted)
    \/ \E token \in Tokens : EnergyTips(token)
    \/ \E token \in Tokens, message \in ChatMessages, outcome \in LlmOutcomes :
          Chat(token, message, outcome)

SpecAggregate == InitAggregate /\ [][NextAggregate]_vars

\* The entries the tips are checked on.
TipAppliances == {"General", "HVAC", "Water Heater", "Lighting"}

TipUsages == {10, 40, 60}

TipEntries ==
    {UsageData("u1", Date(2024, 3, 1), u, a, 0, 0) : u \in TipUsages, a \in TipAppliances}

MaxTipEntries == 3

InitTips ==
    /\ tz = UTCZone
    /\ now = ForecastClock
    /\ kv \in {StoreOf(Stamped(q), OtherUserEntries) : q \in SeqsUpTo(TipEntries, MaxTipEntries)}
    /\ apiKey = TRUE
    /\ llm = <<>>
    /\ req = NoRequest
    /\ resp = NoResponse
    /\ Elsewhere

NextTips == \E token \in Tokens : EnergyTips(token)

SpecTips == InitTips /\ [][NextTips]_vars

\* The bill of usages given in tenths of a kWh: up to MaxFractionEntries
\* entries of 0.1 .. MaxTenths / 10 kWh in March 2024 or 0.7 kWh in April.
MaxTenths == 3

MaxFractionEntries == 3

FractionEntries ==
    {UsageData("u1", Date(2024, 3, 1), DParseFloat(t, 10), "General", 0, 0) :
        t \in 1..MaxTenths} \cup
    {UsageData("u1", Date(2024, 4, 1), DParseFloat(7, 10), "General", 0, 0)}

OtherUserFractions ==
    <<UsageData("u2", Date(2024, 3, 1), DParseFloat(405, 10), "HVAC", 0, 1)>>

InitFraction ==
    /\ tz = UTCZone
    /\ now = ForecastClock
    /\ kv \in {StoreOf(Stamped(q), OtherUserFractions) :
                  q \in SeqsUpTo(FractionEntries, MaxFractionEntries)}
    /\ apiKey = TRUE
    /\ llm = <<>>
    /\ req = NoRequest
    /\ resp = NoResponse
    /\ Elsewhere

NextFraction ==
    \E token \in Tokens, month \in {3, 4} :
        CalculateBillOfDoubles(token, month, 2024, Omitted)

SpecFraction == InitFraction /\ [][NextFraction]_vars

\* The store under writes.  Here the clock counts the milliseconds since
\* the server started; the store starts empty and holds at most MaxWrites
\* entries.
MaxWrites == 2

MaxClock == 1

\* Request bodies: a whole usage, a negative one, one that is no number and
\* none at all, with appliance labels of the form, free ones and none; and a
\* body that is not JSON.
StoreBodies ==
    {[date |-> Date(2024, 3, 1), usage |-> "12", appliance |-> "HVAC", cost |-> "3"],
     [date |-> Date(2024, 3, 2), usage |-> "-5", appliance |-> "", cost |-> ""],
     [date |-> Date(2024, 3, 3), usage |-> "abc", appliance |-> "Oven, electric"],
     [date |-> Date(2024, 3, 4), appliance |-> "Heat\npump", cost |-> "0"],
     [malformed |-> TRUE]}

EmptyStore == [k \in {} |-> NoResponse]

\* A millisecond passes.
Millisecond ==
    /\ now < MaxClock
    /\ now' = now + 1
    /\ UNCHANGED <<tz, kv, apiKey, llm, req, resp, inflight, accounts, verified, usageAlerts>>

InitStore ==
    /\ tz = UTCZone
    /\ now = 0
    /\ kv = EmptyStore
    /\ apiKey = TRUE
    /\ llm = <<>>
    /\ req = NoRequest
    /\ resp = NoResponse
    /\ Elsewhere

NextStore ==
    \/ \E token \in Tokens, body \in StoreBodies :
          Cardinality(DOMAIN kv) < MaxWrites /\ PostEnergyUsage(token, body)
    \/ \E token \in Tokens : GetEnergyUsage(token)
    \/ \E token \in Tokens : ExportCsv(token)
    \/ Millisecond

SpecStore == InitStore /\ [][NextStore]_vars

\* Usage histories in which one entry, the j-th, has a usage that is not a
\* number (none has for j = 0).
MalformedInputs ==
    {[k \in 1..n |->
        LET entry == UsageData("u1", PatternDate(p, n, k), a + k, "General", 0, k)
        IN  IF k = j THEN Without(entry, "usage") ELSE entry] :
        n \in MinEntries..MaxEntries, p \in DatePatterns,
        a \in {0, MaxBase}, j \in 0..MaxEntries}

InitMalformed ==
    /\ tz = UTCZone
    /\ now = ForecastClock
    /\ kv \in {StoreOf(s, OtherUserEntries) : s \in MalformedInputs}
    /\ apiKey = TRUE
    /\ llm = <<>>
    /\ req = NoRequest
    /\ resp = NoResponse
    /\ Elsewhere

NextMalformed == \E token \in Tokens : PredictUsage(token)

SpecMalformed == InitMalformed /\ [][NextMalformed]_vars

\* The usage endpoints together, writes of two users between the reads.  A
\* user writes at most once per clock reading here (what two writes at one
\* reading do is checked on the store above); the clock goes on for
\* MaxClock readings.
ServiceBodies ==
    {[date |-> Date(2024, 3, 5), usage |-> "40", appliance |-> "HVAC", cost |-> "3"],
     [date |-> Date(2024, 4, 1), usage |-> "7", appliance |-> ""]}

\* n entries of a user on consecutive days from 2024-02-20, of usage a + k.
History(uid, n, a) ==
    [k \in 1..n |-> UsageData(uid, PatternDate("ascending", n, k), a + k, "General", 0, k)]

\* The stores the service starts from: empty, or the first user one entry
\* short of a forecast and the second with one entry.
ServiceStores ==
    {EmptyStore,
     StoreOf(History("u1", MinEntries - 1, 2), History("u2", 1, 50))}

ServiceStart == HorizonStart + MaxTicks - MaxClock

InitService ==
    /\ tz = UTCZone
    /\ now = ServiceStart
    /\ kv \in ServiceStores
    /\ apiKey = TRUE
    /\ llm = <<>>
    /\ req = NoRequest
    /\ resp = NoResponse
    /\ Elsewhere

NextService ==
    \/ \E token \in Tokens, body \in ServiceBodies :
          /\ UsageKey(GetUser(token), now) \notin DOMAIN kv
          /\ PostEnergyUsage(token, body)
    \/ \E token \in Tokens : GetEnergyUsage(token)
    \/ \E token \in Tokens : CalculateBill(token, 3, 2024, Omitted)
    \/ \E token \in Tokens : EnergyTips(token)
    \/ \E token \in Tokens : PredictUsage(token)
    \/ \E token \in Tokens : ExportCsv(token)
    \/ Tick

SpecService == InitService /\ [][NextService]_vars

\* Histories around the 30-entry window of the forecast: of every length
\* from the minimum to MaxExcess entries more than the window holds, stored
\* in date order, against it, on one day, or on days shared by two entries
\* and stored newest first; the usage goes through 0..4 with the position.
MaxExcess == 2

WindowPatterns == {"ascending", "descending", "same-day", "pairs"}

WindowDate(pattern, n, k) ==
    IF pattern = "pairs"
    THEN CivilOfDay(DayNumber(2024, 2, 20) + (n - k) \div 2)
    ELSE PatternDate(pattern, n, k)

WindowInputs ==
    {[k \in 1..n |->
        UsageData("u1", WindowDate(p, n, k), (k * k + a) % 5, "General", 0, k)] :
        n \in MinEntries..(Window + MaxExcess), p \in WindowPatterns, a \in {0, 1}}

InitWindow ==
    /\ tz = UTCZone
    /\ now = ForecastClock
    /\ kv \in {StoreOf(s, OtherUserEntries) : s \in WindowInputs}
    /\ apiKey = TRUE
    /\ llm = <<>>
    /\ req = NoRequest
    /\ resp = NoResponse
    /\ Elsewhere

NextWindow == \E token \in Tokens : PredictUsage(token)

SpecWindow == InitWindow /\ [][NextWindow]_vars

\* Straight-line histories a + b (k - 1), the usage below zero included
\* (the server stores it); b = 0 gives a constant history.
TrendInputs ==
    {[k \in 1..n |->
        UsageData("u1", PatternDate(p, n, k), a + b * (k - 1), "General", 0, k)] :
        n \in MinEntries..MaxEntries, p \in {"ascending", "gaps"},
        a \in -MaxBase..MaxBase, b \in -MaxStep..MaxStep}

InitTrend ==
    /\ tz = UTCZone
    /\ now = ForecastClock
    /\ kv \in {StoreOf(s, OtherUserEntries) : s \in TrendInputs}
    /\ apiKey = TRUE
    /\ llm = <<>>
    /\ req = NoRequest
    /\ resp = NoResponse
    /\ Elsewhere

NextTrend == \E token \in Tokens : PredictUsage(token)

SpecTrend == InitTrend /\ [][NextTrend]_vars

\* The goal and alert endpoints, called for either user under every token.
GoalBodies ==
    {[userId |-> u, goal |-> g] :
        u \in {<<>>, <<"u1">>, <<"u2">>}, g \in {<<>>, <<0>>, <<100>>, <<200>>}}

AlertBodies ==
    {[userId |-> u, enabled |-> e, threshold |-> t] :
        u \in {<<>>, <<"u1">>, <<"u2">>}, e \in BOOLEAN, t \in {<<>>, <<0>>, <<30>>}}

InitSettings ==
    /\ tz = UTCZone
    /\ now = ForecastClock
    /\ kv = EmptyStore
    /\ apiKey = TRUE
    /\ llm = <<>>
    /\ req = NoRequest
    /\ resp = NoResponse
    /\ Elsewhere

NextSettings ==
    \/ \E token \in Tokens, userId \in Users : GetEnergyGoal(token, userId)
    \/ \E token \in Tokens, body \in GoalBodies : PostEnergyGoal(token, body)
    \/ \E token \in Tokens, userId \in Users : GetAlertSettings(token, userId)
    \/ \E token \in Tokens, body \in AlertBodies : PostAlertSettings(token, body)

SpecSettings == InitSettings /\ [][NextSettings]_vars

\* Every endpoint that asks for a user, under every token, the store empty
\* or holding entries of both users; each user writes at most once.
InitGate ==
    /\ tz = UTCZone
    /\ now = ForecastClock
    /\ kv \in {EmptyStore, StoreOf(History("u1", MinEntries, 2), History("u2", 1, 50))}
    /\ apiKey \in BOOLEAN
    /\ llm = <<>>
    /\ req = NoRequest
    /\ resp = NoResponse
    /\ Elsewhere

NextGate ==
    \/ \E token \in Tokens, body \in ServiceBodies \cup {[malformed |-> TRUE]} :
          /\ UsageKey(GetUser(token), now) \notin DOMAIN kv
          /\ PostEnergyUsage(token, body)
    \/ \E token \in Tokens : GetEnergyUsage(token)
    \/ \E token \in Tokens : CalculateBill(token, 3, 2024, Omitted)
    \/ \E token \in Tokens : EnergyTips(token)
    \/ \E token \in Tokens : PredictUsage(token)
    \/ \E token \in Tokens : ExportCsv(token)
    \/ \E token \in Tokens, message \in ChatMessages, outcome \in LlmOutcomes :
          Chat(token, message, outcome)

SpecGate == InitGate /\ [][NextGate]_vars

\* One-time passwords: two codes, the clock read every half lifetime of an
\* OTP for MaxWaits times.  For one email up to MaxInflight verify-otp
\* calls are under way at once; for two emails the calls come one at a
\* time, with sign-up.
OtpEmails == {"new@example.com", "u1@example.com"}

OtpCodes == {"111111", "222222"}

MaxInflight == 2

MaxWaits == 3

\* Half the lifetime of an OTP passes.
Wait ==
    /\ now < MaxWaits * (OtpLifetime \div 2)
    /\ now' = now + OtpLifetime \div 2
    /\ UNCHANGED <<tz, kv, apiKey, llm, req, resp, inflight, accounts, verified, usageAlerts>>

InitOtp ==
    /\ tz = UTCZone
    /\ now = 0
    /\ kv = EmptyStore
    /\ apiKey = TRUE
    /\ llm = <<>>
    /\ req = NoRequest
    /\ resp = NoResponse
    /\ Elsewhere

NextOtp ==
    \/ \E email \in {"new@example.com", ""}, otp \in OtpCodes : GenerateOtp(email, otp)
    \/ \E email \in {"new@example.com"}, otp \in OtpCodes \cup {""} :
          /\ Len(inflight) < MaxInflight
          /\ VerifyOtpGet(email, otp)
    \/ \E i \in DOMAIN inflight : VerifyOtpAnswer(i)
    \/ Wait

SpecOtp == InitOtp /\ [][NextOtp]_vars

NextSignup ==
    \/ \E email \in OtpEmails, otp \in OtpCodes : GenerateOtp(email, otp)
    \/ \E email \in OtpEmails, otp \in OtpCodes :
          /\ inflight = <<>>
          /\ VerifyOtpGet(email, otp)
    \/ \E i \in DOMAIN inflight : VerifyOtpAnswer(i)
    \/ \E email \in OtpEmails, outcome \in {"created", "error"} : Signup(email, outcome)
    \/ Wait

SpecSignup == InitOtp /\ [][NextSignup]_vars

-----------------------------------------------------------------------------
(* The UsageAlerts component (src/README.md).  usageAlerts is its state    *)
(* after a render and the effects of that render.  A step is one event:    *)
(* the state it sets, the render that follows, the effect of lines 90-92   *)
(* when one of its dependencies changed, and the request the event sends.  *)

\* The user the dashboard renders the component for, and the key it sends.
AlertsUser == "u1"

PublicAnonKey == "anon-key"

\* The threshold the component falls back on (data.threshold || 50).
FallbackThreshold == 50

\* The most warnings a behaviour shows.
MaxWarnings == 3

\* [currentDailyUsage, threshold, alertsEnabled] of the effect.
Deps(a) == <<a.currentDailyUsage, a.threshold, a.alertsEnabled>>

CheckThresholdUnlatched(a) ==
    IF a.alertsEnabled /\ a.currentDailyUsage > a.threshold
    THEN [a EXCEPT !.hasAlert = TRUE, !.warnings = @ + 1]
    ELSE IF a.currentDailyUsage <= a.threshold
         THEN [a EXCEPT !.hasAlert = FALSE]
         ELSE a

\* checkThreshold: the toast is counted in warnings.
CheckThreshold(a) ==
    IF a.alertsEnabled /\ a.currentDailyUsage > a.threshold /\ ~a.hasAlert
    THEN [a EXCEPT !.hasAlert = TRUE, !.warnings = @ + 1]
    ELSE IF a.currentDailyUsage <= a.threshold
         THEN [a EXCEPT !.hasAlert = FALSE]
         ELSE a

\* The render after old became new: the effect runs when a dependency
\* changed.
Rendered(old, new) ==
    IF Deps(new) # Deps(old) THEN CheckThreshold(new) ELSE new

\* The component is idle: no load is between two of its updates, and the
\* count of warnings is below its bound.
AlertsIdle == usageAlerts.unset = <<>> /\ usageAlerts.warnings < MaxWarnings

\* The dashboard renders the component with another usage.
UsageChanged(usage) ==
    /\ AlertsIdle
    /\ usage # usageAlerts.currentDailyUsage
    /\ usageAlerts' = Rendered(usageAlerts,
                               [usageAlerts EXCEPT !.currentDailyUsage = usage])
    /\ UNCHANGED <<tz, now, kv, apiKey, llm, req, resp, inflight, accounts, verified>>

\* loadAlertSettings when the response arrives.  Where React batches the
\* updates made after an await there is one render; where it does not,
\* setAlertsEnabled renders before setThreshold is called.
LoadAlertSettings(batched) ==
    LET data      == AlertSettingsOf(KvGet(kv, AlertsKey(AlertsUser)))
        threshold == IF data.threshold = 0 THEN FallbackThreshold ELSE data.threshold
    IN  /\ AlertsIdle
        /\ usageAlerts.loading
        /\ req' = [op |-> "get-alert-settings", token |-> PublicAnonKey, at |-> now,
                   userId |-> AlertsUser]
        /\ resp' = [status |-> 200, body |-> data]
        /\ usageAlerts' =
              IF batched
              THEN Rendered(usageAlerts,
                            [usageAlerts EXCEPT !.alertsEnabled = data.enabled,
                                                !.threshold = threshold,
                                                !.loading = FALSE])
              ELSE Rendered(usageAlerts,
                            [usageAlerts EXCEPT !.alertsEnabled = data.enabled,
                                                !.unset = <<threshold>>])
        /\ UNCHANGED <<tz, now, kv, apiKey, llm, inflight, accounts, verified>>

\* setThreshold and setLoading of a load whose updates are not batched.
LoadRest ==
    /\ usageAlerts.unset # <<>>
    /\ usageAlerts' = Rendered(usageAlerts,
                               [usageAlerts EXCEPT !.threshold = usageAlerts.unset[1],
                                                   !.unset = <<>>,
                                                   !.loading = FALSE])
    /\ UNCHANGED <<tz, now, kv, apiKey, llm, req, resp, inflight, accounts, verified>>

\* saveAlertSettings as the server handles it.
SaveAlertSettings(enabled, thresholdValue) ==
    LET body == [userId |-> <<AlertsUser>>, enabled |-> enabled,
                 threshold |-> <<thresholdValue>>]
    IN  /\ req' = [op |-> "post-alert-settings", token |-> PublicAnonKey, at |-> now,
                   body |-> body]
        /\ kv' = SavedAlerts(kv, body, now)
        /\ resp' = [status |-> 200,
                    body   |-> [success |-> TRUE, enabled |-> enabled,
                                threshold |-> thresholdValue]]

\* The switch, shown once the settings are loaded.
HandleToggle(checked) ==
    /\ AlertsIdle
    /\ ~usageAlerts.loading
    /\ usageAlerts' = Rendered(usageAlerts,
                               [usageAlerts EXCEPT !.alertsEnabled = checked])
    /\ SaveAlertSettings(checked, usageAlerts.threshold)
    /\ UNCHANGED <<tz, now, apiKey, llm, inflight, accounts, verified>>

\* The threshold field, disabled while the alerts are off.
HandleThresholdChange(value) ==
    LET newThreshold == ParseFloat(value)
    IN  /\ AlertsIdle
        /\ ~usageAlerts.loading
        /\ usageAlerts.alertsEnabled
        /\ usageAlerts' =
              IF newThreshold # <<>> /\ newThreshold[1] > 0
              THEN Rendered(usageAlerts,
                            [usageAlerts EXCEPT !.threshold = newThreshold[1]])
              ELSE usageAlerts
        /\ UNCHANGED <<tz, now, kv, apiKey, llm, req, resp, inflight, accounts, verified>>

\* The Save button, disabled while the alerts are off.
HandleSaveThreshold ==
    /\ AlertsIdle
    /\ ~usageAlerts.loading
    /\ usageAlerts.alertsEnabled
    /\ SaveAlertSettings(usageAlerts.alertsEnabled, usageAlerts.threshold)
    /\ UNCHANGED <<tz, now, apiKey, llm, inflight, accounts, verified, usageAlerts>>

\* The usages of a day and the texts typed into the threshold field.
AlertUsages == {0, 40, 60, 80}

ThresholdTexts == {"30", "70", "0", "-5", "", "7x"}

\* The component mounted for a user whose settings are not saved yet or
\* are saved with the alerts on.
InitAlerts ==
    /\ tz = UTCZone
    /\ now = ForecastClock
    /\ kv \in {EmptyStore,
               SavedAlerts(EmptyStore,
                           [userId |-> <<AlertsUser>>, enabled |-> TRUE,
                            threshold |-> <<70>>], ForecastClock)}
    /\ apiKey = TRUE
    /\ llm = <<>>
    /\ req = NoRequest
    /\ resp = NoResponse
    /\ inflight = <<>>
    /\ accounts = ExistingAccounts
    /\ verified = {}
    /\ \E usage \in AlertUsages :
          usageAlerts = CheckThreshold([InitialAlerts EXCEPT !.currentDailyUsage = usage])

NextAlerts ==
    \/ \E usage \in AlertUsages : UsageChanged(usage)
    \/ \E batched \in BOOLEAN : LoadAlertSettings(batched)
    \/ LoadRest
    \/ \E checked \in BOOLEAN : HandleToggle(checked)
    \/ \E value \in ThresholdTexts : HandleThresholdChange(value)
    \/ HandleSaveThreshold

SpecAlerts == InitAlerts /\ [][NextAlerts]_vars

-----------------------------------------------------------------------------
(* Properties of GET /predict-usage.                                       *)

\* The entries of the user the last request was made for.
Caller == GetUser(req.token)

CallerData == GetByPrefix(kv, Caller)

\* The last request was a forecast for an authenticated user with too few
\* entries / with enough entries.
PredictedTooFew ==
    req.op = "predict-usage" /\ Caller # NoUser /\ Len(CallerData) < MinEntries

Predicted ==
    req.op = "predict-usage" /\ Caller # NoUser /\ Len(CallerData) >= MinEntries

\* C1: a forecast for a user with fewer than 7 entries answers 200 with a
\* body holding `predictions: null` and the message.
C1_TooFewGivesNullPredictions ==
    PredictedTooFew =>
        /\ resp.status = 200
        /\ "predictions" \in DOMAIN resp.body
        /\ resp.body.predictions = Null
        /\ "message" \in DOMAIN resp.body
        /\ resp.body.message = "Need at least 7 days of data for prediction"

\* C2: every predicted usage returned is >= 0.
C2_PredictionsNonNegative ==
    Predicted =>
        \A i \in DOMAIN resp.body.predictions :
            resp.body.predictions[i].predictedUsage >= 0

\* A forecast whose unclamped projection is negative on some day, reported 0.
C2_Witness ==
    /\ Predicted
    /\ \E i \in 1..Horizon :
          /\ LET sd == SortedData(CallerData)
                 n  == Len(sd)
                 a  == n * SumXY(sd) - SumX(sd) * SumY(sd)
                 d  == n * SumXX(sd) - SumX(sd) * SumX(sd)
             IN  \* n d (slope x + intercept) = a n x + d sumY - a sumX < 0
                 a * n * (n + i - 1) + d * SumY(sd) - a * SumX(sd) < 0
          /\ resp.body.predictions[i].predictedUsage = 0

\* The prepared sequence of the last forecast and its usages in order.
Prepared == SortedData(CallerData)

PreparedUsage == [k \in 1..Len(Prepared) |-> Prepared[k].usage]

\* The normal equations of the least-squares line s x + c through the points
\* (k - 1, y[k]): the residuals sum to 0, and so do the residuals weighted
\* by x.  s and c are fractions; the sums are scaled by both denominators.
IsLeastSquaresFit(y, s, c) ==
    LET n        == Len(y)
        resid(k) == y[k] * s.den * c.den - s.num * (k - 1) * c.den - c.num * s.den
    IN  /\ ~IsNaN(s) /\ ~IsNaN(c)
        /\ Sigma([k \in 1..n |-> resid(k)], n) = 0
        /\ Sigma([k \in 1..n |-> (k - 1) * resid(k)], n) = 0

\* C3: slope and intercept are the least-squares fit of usage against the
\* rank 0..n-1 in the prepared sequence; usages 1..7 in date order give
\* slope 1, intercept 1 and a first prediction of 8.
C3_LeastSquaresOverRank ==
    Predicted =>
        /\ IsLeastSquaresFit(PreparedUsage, Slope(Prepared), Intercept(Prepared))
        /\ PreparedUsage = <<1, 2, 3, 4, 5, 6, 7>> =>
              /\ Slope(Prepared) = FInt(1)
              /\ Intercept(Prepared) = FInt(1)
              /\ resp.body.predictions[1].predictedUsage = 800

\* The literal case, stored in an order the sort has to undo.
C3_Witness ==
    /\ Predicted
    /\ PreparedUsage = <<1, 2, 3, 4, 5, 6, 7>>
    /\ Prepared # CallerData
    /\ resp.body.predictions[1].predictedUsage = 800

\* C4: a forecast holds exactly 7 pairs, the i-th dated today + i days,
\* today being the date of the request.
C4_SevenDaysFromToday ==
    Predicted =>
        /\ Len(resp.body.predictions) = 7
        /\ \A i \in 1..7 :
              resp.body.predictions[i].date = CivilOfDay((req.at \div 24) + i)

\* max(0, slope (n + i - 1) + intercept) for the last forecast.
ClampedProjection(i) ==
    LET v == FAdd(FMul(Slope(Prepared), FInt(Len(Prepared) + i - 1)),
                  Intercept(Prepared))
    IN  IF v.num < 0 THEN FInt(0) ELSE v

\* C5: the i-th predicted usage p (in hundredths) is the clamped projection
\* rounded to 2 decimals: p - 1/2 <= 100 v < p + 1/2.
C5_RoundedClampedProjection ==
    Predicted =>
        \A i \in 1..7 :
            LET v == ClampedProjection(i)
                p == resp.body.predictions[i].predictedUsage
            IN  /\ (2 * p - 1) * v.den <= 200 * v.num
                /\ 200 * v.num < (2 * p + 1) * v.den

\* A forecast where a positive projection is not a whole number of
\* hundredths and is rounded up.
C5_Witness ==
    /\ Predicted
    /\ \E i \in 1..7 :
          LET v == ClampedProjection(i)
              p == resp.body.predictions[i].predictedUsage
          IN  v.num > 0 /\ (100 * v.num) % v.den # 0 /\ p * v.den > 100 * v.num

-----------------------------------------------------------------------------
(* Properties of POST /calculate-bill, GET /energy-tips and POST /chat.    *)

\* The last request was a bill request of an authenticated user.
Billed == req.op = "calculate-bill" /\ Caller # NoUser

\* The sum of usage over the entries of data at the positions in S.
RECURSIVE UsageOver(_, _)
UsageOver(data, S) ==
    IF S = {} THEN 0
    ELSE LET k == CHOOSE k \in S : TRUE
         IN  data[k].usage + UsageOver(data, S \ {k})

\* The positions of the caller's entries the handler's filter selects for
\* the period asked for.
Selected == {k \in DOMAIN CallerData : InMonth(tz, CallerData[k], req.month, req.year)}

\* The positions of the caller's entries whose written date lies in the
\* period asked for.
WrittenInPeriod ==
    {k \in DOMAIN CallerData :
        CallerData[k].date.m = req.month /\ CallerData[k].date.y = req.year}

C7_BillHoldsExactlyThePeriod ==
    Billed =>
        /\ resp.body.bill.entriesCount = Cardinality(WrittenInPeriod)
        /\ resp.body.bill.totalUsage = UsageOver(CallerData, WrittenInPeriod)

\* C8: a bill request with a month outside 1..12 or a rate <= 0 is rejected
\* with an input-validation error and yields no bill.
C8_InvalidBillRequestRejected ==
    (Billed /\ (req.month \notin 1..12 \/ RateOf(req.ratePerKwh) <= 0)) =>
        /\ resp.status = 400
        /\ "bill" \notin DOMAIN resp.body

\* C9: no entries is not an error: a bill over no entries is all zeros, the
\* average of a user with no entries is 0, and no prompt carries a NaN.
C9_EmptyAggregatesAreZero ==
    /\ (Billed /\ Selected = {}) =>
          /\ resp.status = 200
          /\ resp.body.bill.totalUsage = 0
          /\ resp.body.bill.entriesCount = 0
          /\ resp.body.bill.estimatedCost = 0
    /\ \A u \in Users :
          GetByPrefix(kv, u) = <<>> => AvgDailyUsage(GetByPrefix(kv, u)) = FInt(0)
    /\ (req.op = "energy-tips" /\ Caller # NoUser) => resp.status = 200
    /\ \A k \in DOMAIN llm :
          IF llm[k].entries = 0 THEN "avgDaily" \notin DOMAIN llm[k]
          ELSE ~IsNaN(llm[k].avgDaily)

\* A zero bill for a user with no entries, whose chat prompt went out before.
C9_Witness ==
    /\ Billed
    /\ CallerData = <<>>
    /\ resp.body.bill.totalUsage = 0
    /\ resp.body.bill.entriesCount = 0
    /\ resp.body.bill.estimatedCost = 0
    /\ \E k \in DOMAIN llm : llm[k].entries = 0

\* The summed usage of an appliance label over the caller's entries.
CallerUsageOf(a) ==
    UsageOver(CallerData, {k \in DOMAIN CallerData : CallerData[k].appliance = a})

\* a's summed usage is the largest of all labels in use.
IsMaximal(a) ==
    /\ \E k \in DOMAIN CallerData : CallerData[k].appliance = a
    /\ \A k \in DOMAIN CallerData :
          CallerUsageOf(CallerData[k].appliance) <= CallerUsageOf(a)

\* The caller's average usage is at most 30: total <= 30 * count.
CallerAverageLow ==
    UsageOver(CallerData, DOMAIN CallerData) <= 30 * Len(CallerData)

Tipped == req.op = "energy-tips" /\ Caller # NoUser

\* C10: the tips list is never empty; with an average of at most 30 and a
\* dominant appliance that is neither HVAC nor Water Heater it is exactly
\* the two generic tips.
C10_TipsNeverEmpty ==
    Tipped =>
        /\ resp.status = 200
        /\ Len(resp.body.tips) > 0
        /\ (CallerAverageLow /\ TopAppliance(CallerData) \notin {"HVAC", "Water Heater"})
              => resp.body.tips = <<TipGreatJob, TipPowerStrip>>
        /\ (CallerAverageLow /\ ~IsMaximal("HVAC") /\ ~IsMaximal("Water Heater"))
              => resp.body.tips = <<TipGreatJob, TipPowerStrip>>

\* Low usage with HVAC in use but another appliance dominant: the two
\* generic tips.
C10_Witness ==
    /\ Tipped
    /\ CallerAverageLow
    /\ \E k \in DOMAIN CallerData : CallerData[k].appliance = "HVAC"
    /\ ~IsMaximal("HVAC") /\ ~IsMaximal("Water Heater")
    /\ resp.body.tips = <<TipGreatJob, TipPowerStrip>>

\* The rules of the tip ladder in the order they are evaluated.
TipSequence ==
    <<TipLed, TipUnplug, TipEnergyStar, TipThermostat, TipHvac, TipWaterHeater>>

FallbackTips == <<TipGreatJob, TipPowerStrip>>

\* s picks elements of fixed, each at most once, in the order of fixed.
IsSelection(s, fixed) ==
    LET pos(t) == CHOOSE k \in DOMAIN fixed : fixed[k] = t
    IN  /\ \A i \in DOMAIN s : \E k \in DOMAIN fixed : fixed[k] = s[i]
        /\ \A i, j \in DOMAIN s : i < j => pos(s[i]) < pos(s[j])

Has(s, t) == \E i \in DOMAIN s : s[i] = t

\* The caller's average usage is above t: total > t * count.
CallerAverageOver(t) ==
    UsageOver(CallerData, DOMAIN CallerData) > t * Len(CallerData)

\* The tips of the last response that the rules produced.
RuleTips == IF resp.body.tips = FallbackTips THEN <<>> ELSE resp.body.tips

\* C11: the tips the rules produce are a selection, in order, from the fixed
\* sequence LED, unplug, ENERGY STAR, thermostat, appliance tip: the first two
\* exactly when the average is above 30, the next two after them exactly
\* when it is above 50, an appliance tip only in the last place.
C11_TipsInRuleOrder ==
    Tipped =>
        /\ IsSelection(RuleTips, TipSequence)
        /\ IF CallerAverageOver(30)
           THEN Len(RuleTips) >= 2 /\ SubSeq(RuleTips, 1, 2) = <<TipLed, TipUnplug>>
           ELSE ~Has(RuleTips, TipLed) /\ ~Has(RuleTips, TipUnplug)
        /\ IF CallerAverageOver(50)
           THEN /\ Len(RuleTips) >= 4
                /\ SubSeq(RuleTips, 1, 4) =
                      <<TipLed, TipUnplug, TipEnergyStar, TipThermostat>>
           ELSE ~Has(RuleTips, TipEnergyStar) /\ ~Has(RuleTips, TipThermostat)
        /\ \A i \in DOMAIN RuleTips :
              RuleTips[i] \in {TipHvac, TipWaterHeater} => i = Len(RuleTips)

\* An average above 50 with Water Heater dominant: all four usage tips, then
\* the water-heater tip.
C11_Witness ==
    /\ Tipped
    /\ CallerAverageOver(50)
    /\ resp.body.tips =
          <<TipLed, TipUnplug, TipEnergyStar, TipThermostat, TipWaterHeater>>

\* C12: the two generic tips are in the result exactly when no rule fired,
\* that is when the average is at most 30 and the dominant appliance is
\* neither HVAC nor Water Heater, and then they are the whole result.
C12_FallbackIffNoOtherTip ==
    Tipped =>
        LET tips     == resp.body.tips
            fallback == Has(tips, TipGreatJob) \/ Has(tips, TipPowerStrip)
            other    == \E i \in DOMAIN tips : tips[i] \notin {TipGreatJob, TipPowerStrip}
        IN  /\ fallback <=> ~other
            /\ fallback => tips = FallbackTips
            /\ fallback <=> (CallerAverageLow /\
                             TopAppliance(CallerData) \notin {"HVAC", "Water Heater"})
            /\ (CallerAverageLow /\ ~IsMaximal("HVAC") /\ ~IsMaximal("Water Heater"))
                  => fallback
            /\ fallback =>
                  /\ CallerAverageLow
                  /\ \A a \in {"HVAC", "Water Heater"} :
                        IsMaximal(a) =>
                           \E k \in DOMAIN CallerData :
                              /\ CallerData[k].appliance # a
                              /\ IsMaximal(CallerData[k].appliance)

\* A low average with HVAC dominant: the HVAC tip alone, no generic tip.
C12_Witness ==
    /\ Tipped
    /\ CallerAverageLow
    /\ TopAppliance(CallerData) = "HVAC"
    /\ resp.body.tips = <<TipHvac>>

\* The keys of the per-appliance map of the caller, in iteration order.
CallerKeys == ApplianceKeys(CallerData)

\* The first key, in iteration order, whose summed usage is maximal.
FirstMaximalKey ==
    CallerKeys[CHOOSE k \in DOMAIN CallerKeys :
                  /\ IsMaximal(CallerKeys[k])
                  /\ \A j \in 1..(k - 1) : ~IsMaximal(CallerKeys[j])]

\* C13: the dominant appliance has a maximal summed usage, and of several
\* with the maximum it is the first in the map's iteration order; so the
\* appliance tip given is the one of that first maximal key.
C13_DominantIsFirstMaximal ==
    (Tipped /\ CallerData # <<>>) =>
        /\ IsMaximal(TopAppliance(CallerData))
        /\ TopAppliance(CallerData) = FirstMaximalKey
        /\ Has(resp.body.tips, TipHvac) <=> FirstMaximalKey = "HVAC"
        /\ Has(resp.body.tips, TipWaterHeater) <=> FirstMaximalKey = "Water Heater"

\* The orders a store could return the entries q in.
PermutationsOf(q) ==
    {[k \in 1..Len(q) |-> q[f[k]]] :
        f \in {g \in [1..Len(q) -> 1..Len(q)] :
                  \A i, j \in 1..Len(q) : g[i] = g[j] => i = j}}

\* The sum of the usages of data, not rounded.
RECURSIVE ExactTotal(_)
ExactTotal(data) ==
    IF data = <<>> THEN DZero
    ELSE ExactAdd(ExactTotal(SubSeq(data, 1, Len(data) - 1)), data[Len(data)].usage)

\* C14: the total usage of a bill is the sum of the usages of the entries of
\* the period (the nearest number to it that can be returned), and the same
\* in whatever order the store returns the caller's entries.
C14_TotalIsOrderIndependent ==
    Billed =>
        /\ resp.body.bill.totalUsage =
              DRound(ExactTotal(MonthlyData(tz, CallerData, req.month, req.year)))
        /\ \A p \in PermutationsOf(CallerData) :
              DBillData(tz, p, req.month, req.year, req.ratePerKwh).totalUsage =
                 resp.body.bill.totalUsage

-----------------------------------------------------------------------------
(* Properties of the store: POST /energy-usage, GET /energy-usage and      *)
(* GET /export-csv.                                                        *)

\* This step is a write that was answered with success.
PostSucceeded ==
    /\ now' = now
    /\ req' # req
    /\ req'.op = "post-energy-usage"
    /\ resp'.status = 200

\* C15: every successful write adds one entry to what is retrieved for its
\* user and leaves every entry stored before as it was, also when two
\* writes fall in one millisecond.
C15_EveryWriteKept ==
    [][PostSucceeded =>
          LET u == GetUser(req'.token)
          IN  /\ Len(GetByPrefix(kv', u)) = Len(GetByPrefix(kv, u)) + 1
              /\ \A k \in DOMAIN kv : k \in DOMAIN kv' /\ kv'[k] = kv[k]]_vars

\* C16: every entry in the store has a usage that is a number and >= 0.
C16_StoredUsageNonNegative ==
    \A k \in DOMAIN kv : "usage" \in DOMAIN kv[k] /\ kv[k].usage >= 0

\* text.split(sep).
Split(text, sep) ==
    LET at     == {i \in 1..Len(text) : SubSeq(text, i, i) = sep}
        n      == Cardinality(at)
        pos(k) == IF k = 0 THEN 0
                  ELSE IF k = n + 1 THEN Len(text) + 1
                  ELSE CHOOSE p \in at : Cardinality({q \in at : q < p}) = k - 1
    IN  [k \in 1..(n + 1) |-> SubSeq(text, pos(k - 1) + 1, pos(k) - 1)]

Exported == req.op = "export-csv" /\ Caller # NoUser

\* C17: the CSV is the header line and one line per entry of the caller,
\* each of exactly four comma-separated fields.
C17_CsvOneRowPerEntry ==
    Exported =>
        LET lines == Split(resp.body.csv, "\n")
        IN  /\ resp.status = 200
            /\ lines[1] = "Date,Usage (kWh),Appliance,Cost ($)"
            /\ Len(lines) = 1 + Len(CallerData)
            /\ \A i \in 2..Len(lines) : Len(Split(lines[i], ",")) = 4

\* The caller has an entry whose usage is not a number.
CallerHasMalformed == \E k \in DOMAIN CallerData : "usage" \notin DOMAIN CallerData[k]

\* C18: a forecast for a user with an entry whose usage is not a number is
\* refused with an error and returns no predictions.
C18_MalformedEntryFailsForecast ==
    (req.op = "predict-usage" /\ Caller # NoUser /\ CallerHasMalformed) =>
        /\ resp.status >= 400
        /\ "error" \in DOMAIN resp.body
        /\ "predictions" \notin DOMAIN resp.body

-----------------------------------------------------------------------------
(* Properties of the usage endpoints together.                             *)

ReadOps == {"energy-usage", "calculate-bill", "energy-tips", "predict-usage", "export-csv"}

\* C19: a request to a read or aggregate endpoint (listing, bill, tips,
\* forecast, CSV) leaves the store as it was: the same keys, the same value
\* under each.
C19_ReadsLeaveStoreUnchanged ==
    [][(req' # req /\ req'.op \in ReadOps) => kv' = kv]_vars

\* A CSV was exported for a user with entries, which are all still stored.
C19_Witness ==
    /\ Exported
    /\ resp.status = 200
    /\ CallerData # <<>>
    /\ Len(Split(resp.body.csv, "\n")) = 1 + Len(CallerData)

\* The entries of user u alone.
OwnStore(store, u) == [k \in UsageKeys(store, u) |-> store[k]]

\* store with the usage entries of every user but u replaced by the
\* entries others.
WithOthers(store, u, others) ==
    LET own == OwnStore(store, u)
    IN  [k \in DOMAIN own \cup DOMAIN others |->
            IF k \in DOMAIN own THEN own[k] ELSE others[k]]

\* What other users could have stored instead, for the caller u.
OtherContents(u) ==
    LET v == CHOOSE w \in Users : w # u
    IN  {EmptyStore,
         OwnStore(StoreOf(History("u1", MinEntries, 90), History("u2", MinEntries, 90)), v)}

\* The answer to the last request on a store.
AnswerOn(store) ==
    LET data == GetByPrefix(store, Caller)
    IN  CASE req.op = "energy-usage" ->
                [status |-> 200, body |-> [data |-> SortByTimestamp(data)]]
          [] req.op = "calculate-bill" ->
                [status |-> 200,
                 body   |-> [bill |-> BillData(tz, data, req.month, req.year,
                                               req.ratePerKwh)]]
          [] req.op = "energy-tips" ->
                [status |-> 200, body |-> [tips |-> Tips(data)]]
          [] req.op = "predict-usage" -> PredictResponse(tz, req.at, data)
          [] req.op = "export-csv" ->
                [status |-> 200, body |-> [csv |-> CsvContent(data)]]

ReadByUser == req.op \in ReadOps /\ Caller # NoUser

\* C20: the answer to a user's listing, bill, tips, forecast or CSV request
\* is the answer the same request gets on a store with that user's entries
\* and any other entries of other users: what others wrote is not in it and
\* does not change it.
C20_AnswersDependOnOwnEntriesOnly ==
    ReadByUser =>
        /\ \A others \in OtherContents(Caller) :
              resp = AnswerOn(WithOthers(kv, Caller, others))
        /\ req.op = "energy-usage" =>
              \A i \in DOMAIN resp.body.data : resp.body.data[i].userId = Caller

\* A listing for the first user, with entries of her own, after the second
\* user wrote an entry at this clock reading.
C20_Witness ==
    /\ req.op = "energy-usage"
    /\ Caller = "u1"
    /\ resp.body.data # <<>>
    /\ UsageKey("u2", now) \in DOMAIN kv

-----------------------------------------------------------------------------
(* Properties of the forecast's window.                                    *)

\* The i-th entry the store returned comes before the j-th in the order of
\* the sort: by date, and by store order on one date.
ComesBefore(data, i, j) ==
    \/ DateParse(data[i].date) < DateParse(data[j].date)
    \/ DateParse(data[i].date) = DateParse(data[j].date) /\ i < j

\* The place of the i-th returned entry among all of them, from 1.
RankOf(data, i) == 1 + Cardinality({j \in DOMAIN data : ComesBefore(data, j, i)})

\* How many entries are more than the window holds.
ExcessOf(data) == IF Len(data) > Window THEN Len(data) - Window ELSE 0

\* data with the usage of every entry older than the window replaced by u.
WithOldUsage(data, u) ==
    [i \in DOMAIN data |->
        IF RankOf(data, i) <= ExcessOf(data)
        THEN [data[i] EXCEPT !.usage = u] ELSE data[i]]

C22_SlopeDenominatorPositive ==
    Predicted =>
        /\ Len(Prepared) * SumXX(Prepared) - SumX(Prepared) * SumX(Prepared) > 0
        /\ ~IsNaN(Slope(Prepared))
        /\ ~IsNaN(Intercept(Prepared))

\* A forecast over a full window.
C22_Witness ==
    /\ Predicted
    /\ Len(Prepared) = Window
    /\ Len(Prepared) * SumXX(Prepared) - SumX(Prepared) * SumX(Prepared) =
           (Window * Window * (Window * Window - 1)) \div 12

\* Two instants on one day: on one calendar day of the server's zone and on
\* one UTC day.
SameDay(zone, s, t) ==
    /\ s \div 24 = t \div 24
    /\ LocalOf(zone, s) \div 24 = LocalOf(zone, t) \div 24

\* C23: a forecast for a user, after a forecast for that user on the same
\* day over the same stored entries, is the same answer.
C23_SameEntriesSameDaySameForecast ==
    [][(/\ req.op = "predict-usage" /\ req'.op = "predict-usage"
        /\ GetUser(req.token) # NoUser /\ req'.token = req.token
        /\ kv' = kv
        /\ SameDay(tz, req.at, req'.at))
       => resp' = resp]_vars

\* The predicted usage of day i in the last forecast, in hundredths.
PredictedUsage(i) == resp.body.predictions[i].predictedUsage

\* C29: the 7 predicted usages do not decrease from day to day when the
\* slope is >= 0 and do not increase when it is <= 0; under a negative
\* slope a day predicted 0 is followed by days predicted 0; a history of
\* one usage c on every entry gives 7 predictions of c.
C29_PredictionsMonotoneInDay ==
    Predicted =>
        /\ ~FGt(FInt(0), Slope(Prepared)) =>
              \A i \in 1..(Horizon - 1) : PredictedUsage(i) <= PredictedUsage(i + 1)
        /\ ~FGt(Slope(Prepared), FInt(0)) =>
              \A i \in 1..(Horizon - 1) : PredictedUsage(i) >= PredictedUsage(i + 1)
        /\ FGt(FInt(0), Slope(Prepared)) =>
              \A i \in 1..(Horizon - 1) :
                  PredictedUsage(i) = 0 => PredictedUsage(i + 1) = 0
        /\ \A c \in -MaxBase..MaxBase :
              (\A k \in DOMAIN Prepared : Prepared[k].usage = c) =>
                  \A i \in 1..Horizon : PredictedUsage(i) = 100 * c

-----------------------------------------------------------------------------
(* Properties of the goal and alert settings.                              *)

\* The store is the same but for what is under the key.
SameButFor(key) ==
    /\ DOMAIN kv' \ {key} = DOMAIN kv \ {key}
    /\ \A k \in DOMAIN kv \ {key} : kv'[k] = kv[k]

\* C24: a successful POST of a goal or of alert settings stores the posted
\* values for the user named and leaves every other record alone; a GET
\* for a user with a stored record answers the values stored, that is the
\* values of the last successful POST for that user, a threshold of 0 and
\* enabled false included.
C24_SettingsReadBackAsSaved ==
    [][/\ (req'.op = "post-energy-goal" /\ resp'.status = 200) =>
              /\ kv'[GoalKey(req'.body.userId[1])].goal = req'.body.goal[1]
              /\ SameButFor(GoalKey(req'.body.userId[1]))
       /\ (req'.op = "post-alert-settings" /\ resp'.status = 200) =>
              /\ kv'[AlertsKey(req'.body.userId[1])].enabled = req'.body.enabled
              /\ kv'[AlertsKey(req'.body.userId[1])].threshold = req'.body.threshold[1]
              /\ SameButFor(AlertsKey(req'.body.userId[1]))
       /\ (req'.op = "get-energy-goal" /\ GoalKey(req'.userId) \in DOMAIN kv) =>
              /\ resp'.body.goal = kv[GoalKey(req'.userId)].goal
              /\ kv' = kv
       /\ (req'.op = "get-alert-settings" /\ AlertsKey(req'.userId) \in DOMAIN kv) =>
              /\ resp'.body.enabled = kv[AlertsKey(req'.userId)].enabled
              /\ resp'.body.threshold = kv[AlertsKey(req'.userId)].threshold
              /\ kv' = kv
      ]_vars

\* The user whose record a goal or alert request names, NoUser when it
\* names none.
NamedUser(r) ==
    IF r.op \in {"get-energy-goal", "get-alert-settings"} THEN r.userId
    ELSE IF r.body.userId = <<>> THEN NoUser ELSE r.body.userId[1]

SettingsOps ==
    {"get-energy-goal", "post-energy-goal", "get-alert-settings", "post-alert-settings"}

\* The request of the step is answered from a stored record.
AnsweredFromRecord ==
    \/ req'.op = "get-energy-goal" /\ GoalKey(req'.userId) \in DOMAIN kv
    \/ req'.op = "get-alert-settings" /\ AlertsKey(req'.userId) \in DOMAIN kv

\* C28: a goal or alert request that is answered from a user's stored
\* record, or that changes the record, carries the token of that user.
C28_SettingsOnlyForTheirUser ==
    [][(req'.op \in SettingsOps /\ resp'.status = 200
            /\ (AnsweredFromRecord \/ kv' # kv)) =>
           GetUser(req'.token) = NamedUser(req')]_vars

-----------------------------------------------------------------------------
(* Properties of the endpoints that ask for a user.                        *)

UserOps == ReadOps \cup {"post-energy-usage", "chat"}

\* C25: a request to POST or GET /energy-usage, /calculate-bill,
\* /energy-tips, /predict-usage, /export-csv or /chat whose token resolves
\* to no user is answered 401 Unauthorized, whatever the store holds and
\* whatever the body; the store is left as it was and no prompt is sent.
C25_NoUserNoService ==
    [][(req'.op \in UserOps /\ GetUser(req'.token) = NoUser
            /\ (req' # req \/ resp' # resp \/ kv' # kv \/ llm' # llm)) =>
           /\ resp' = Unauthorized
           /\ kv' = kv
           /\ llm' = llm]_vars

\* A chat message with a token of no user, refused while the store holds
\* entries and the key of the model API is set.
C25_Witness ==
    /\ req.op = "chat"
    /\ GetUser(req.token) = NoUser
    /\ req.message # ""
    /\ apiKey
    /\ resp = Unauthorized
    /\ DOMAIN kv # {}
    /\ llm = <<>>

-----------------------------------------------------------------------------
(* Properties of the one-time passwords and of sign-up.                    *)

\* The step is the answer to a verify-otp call.
VerifyAnswered == Len(inflight') = Len(inflight) - 1

\* The step is a generate-otp request that was answered with a code.
OtpGenerated ==
    /\ req'.op = "generate-otp" /\ resp'.status = 200
    /\ inflight' = inflight /\ now' = now

\* C26: verify-otp succeeds only while an OTP is stored for the email, not
\* past its expiresAt and equal to the code submitted; a success and a
\* detected expiry leave no OTP stored for the email, a wrong code leaves
\* the store as it is; generate-otp stores the new code, good for ten
\* minutes, in place of any earlier one.
C26_OtpVerifiesOnceBeforeExpiry ==
    [][/\ (VerifyAnswered /\ resp' = OtpVerified) =>
              /\ OtpKey(req'.email) \in DOMAIN kv
              /\ now <= kv[OtpKey(req'.email)].expiresAt
              /\ kv[OtpKey(req'.email)].otp = req'.otp
              /\ OtpKey(req'.email) \notin DOMAIN kv'
       /\ (VerifyAnswered /\ resp' = OtpRefused("OTP has expired")) =>
              OtpKey(req'.email) \notin DOMAIN kv'
       /\ (VerifyAnswered /\ resp' = OtpRefused("Invalid OTP")) => kv' = kv
       /\ OtpGenerated =>
              /\ kv'[OtpKey(req'.email)].otp = resp'.body.otp
              /\ kv'[OtpKey(req'.email)].expiresAt = now + OtpLifetime
      ]_vars

\* C27: an account is created for an email only when an OTP was verified
\* for that email and no account was created for it since.
C27_SignupAfterVerifiedOtp ==
    [][\A email \in accounts' \ accounts : email \in verified]_vars

-----------------------------------------------------------------------------
(* Properties of the UsageAlerts component.                                *)

\* The step showed a high-usage warning.
WarningFired == usageAlerts'.warnings # usageAlerts.warnings

\* C30: a step shows at most one warning, and only when after it the alerts
\* are enabled and the usage is above the threshold, and before it no alert
\* was pending; the warning leaves the alert pending, and a pending alert is
\* cleared only by a step after which the usage is at most the threshold.
C30_OneWarningPerExcursion ==
    [][/\ WarningFired =>
            /\ usageAlerts'.warnings = usageAlerts.warnings + 1
            /\ usageAlerts'.alertsEnabled
            /\ usageAlerts'.currentDailyUsage > usageAlerts'.threshold
            /\ ~usageAlerts.hasAlert
            /\ usageAlerts'.hasAlert
       /\ (usageAlerts.hasAlert /\ ~usageAlerts'.hasAlert) =>
            usageAlerts'.currentDailyUsage <= usageAlerts'.threshold]_vars

\* A second warning was shown, the alert is pending, and the usage, the
\* threshold and the switch all differ from what the component mounted with.
C30_Witness ==
    /\ usageAlerts.warnings = 2
    /\ usageAlerts.hasAlert
    /\ usageAlerts.alertsEnabled
    /\ usageAlerts.threshold = 30
    /\ usageAlerts.currentDailyUsage = 40
    /\ ~usageAlerts.loading

====
